---------------------------- MODULE Spec2Model ----------------------------
(***************************************************************************)
(* A model of the record store of coffee-lab-api (src/db.js): the five    *)
(* operations getAll, getByIdOrSlug, create, update and delete over one   *)
(* JSON file per entity.                                                   *)
(*                                                                         *)
(* JavaScript values are tagged pairs <<tag, payload>>:                    *)
(*   <<"undef", 0>>  <<"null", 0>>  <<"bool", TRUE>>  <<"num", 12>>        *)
(*   <<"str", <<"a", "b">>>>    a string is the sequence of its characters *)
(*   <<"arr", <<v1, v2>>>>      an array is the sequence of its elements   *)
(*   <<"obj", <<<<k1, v1>>, <<k2, v2>>>>>>  a nested object is the         *)
(*                              sequence of its key/value pairs in         *)
(*                              insertion order, each key a character      *)
(*                              sequence                                   *)
(* A document and a field bag are functions from field names to values;   *)
(* a field that is absent is not in the DOMAIN.                            *)
(***************************************************************************)
EXTENDS Integers, Sequences, FiniteSets, TLC

(***************************************************************************)
(* Values                                                                  *)
(***************************************************************************)
Undef == <<"undef", 0>>

Null == <<"null", 0>>

Bool(b) == <<"bool", b>>

Num(n) == <<"num", n>>

Str(s) == <<"str", s>>

Arr(xs) == <<"arr", xs>>

Obj(ps) == <<"obj", ps>>

IsStr(v) == v[1] = "str"

IsArr(v) == v[1] = "arr"

IsObj(v) == v[1] = "obj"

\* JavaScript truthiness: undefined, null, false, 0 and "" are falsy.
Truthy(v) ==
  CASE v[1] = "undef" -> FALSE
    [] v[1] = "null" -> FALSE
    [] v[1] = "bool" -> v[2]
    [] v[1] = "num" -> v[2] # 0
    [] v[1] = "str" -> v[2] # <<>>
    [] OTHER -> TRUE

\* a || b
Or(a, b) == IF Truthy(a) THEN a ELSE b

\* a === b: primitives compare by value, arrays and objects by reference
\* (two values that reach the store from different requests are never the
\* same reference).
StrictEq(a, b) == a[1] \in {"undef", "null", "bool", "num", "str"} /\ a = b

\* item.k: undefined when the key is absent.
Get(item, k) == IF k \in DOMAIN item THEN item[k] ELSE Undef

\* { ...a, ...b }
Spread(a, b) ==
  [k \in (DOMAIN a) \cup (DOMAIN b) |-> IF k \in DOMAIN b THEN b[k] ELSE a[k]]

\* item.k = v
Set(item, k, v) ==
  [x \in (DOMAIN item) \cup {k} |-> IF x = k THEN v ELSE item[x]]

\* delete item.k
Delete(item, k) == [x \in (DOMAIN item) \ {k} |-> item[x]]

EmptyBag == [x \in {} |-> Undef]

(***************************************************************************)
(* Characters and strings                                                  *)
(***************************************************************************)
LowerLetters ==
  <<"a", "b", "c", "d", "e", "f", "g", "h", "i", "j", "k", "l", "m",
    "n", "o", "p", "q", "r", "s", "t", "u", "v", "w", "x", "y", "z">>

UpperLetters ==
  <<"A", "B", "C", "D", "E", "F", "G", "H", "I", "J", "K", "L", "M",
    "N", "O", "P", "Q", "R", "S", "T", "U", "V", "W", "X", "Y", "Z">>

DigitChars == <<"0", "1", "2", "3", "4", "5", "6", "7", "8", "9">>

Range(s) == {s[i] : i \in DOMAIN s}

IndexOf(s, c) == CHOOSE i \in DOMAIN s : s[i] = c

\* The whitespace class \s; the model's texts hold the space only.
Whitespace == {" "}

\* The word class \w = [A-Za-z0-9_] extended by "-", as in the class [^\w-].
WordOrHyphen ==
  Range(LowerLetters) \cup Range(UpperLetters) \cup Range(DigitChars) \cup {"_", "-"}

ToLowerChar(c) ==
  IF c \in Range(UpperLetters) THEN LowerLetters[IndexOf(UpperLetters, c)] ELSE c

ToUpperChar(c) ==
  IF c \in Range(LowerLetters) THEN UpperLetters[IndexOf(LowerLetters, c)] ELSE c

\* String.prototype.toLowerCase
ToLowerCase(s) == [i \in DOMAIN s |-> ToLowerChar(s[i])]

\* String.prototype.toUpperCase
ToUpperCase(s) == [i \in DOMAIN s |-> ToUpperChar(s[i])]

RECURSIVE TrimStart(_)
TrimStart(s) ==
  IF s # <<>> /\ Head(s) \in Whitespace THEN TrimStart(Tail(s)) ELSE s

RECURSIVE TrimEnd(_)
TrimEnd(s) ==
  IF s # <<>> /\ s[Len(s)] \in Whitespace
  THEN TrimEnd(SubSeq(s, 1, Len(s) - 1))
  ELSE s

\* String.prototype.trim
Trim(s) == TrimEnd(TrimStart(s))

\* The length of the run of characters of cs that s starts with.
RECURSIVE RunLength(_, _)
RunLength(s, cs) ==
  IF s # <<>> /\ Head(s) \in cs THEN 1 + RunLength(Tail(s), cs) ELSE 0

\* s.replace(/[cs]{min,}/g, r): every maximal run of at least min characters
\* of cs is replaced by r; shorter runs are kept.
RECURSIVE ReplaceRuns(_, _, _, _)
ReplaceRuns(s, cs, min, r) ==
  IF s = <<>> THEN <<>>
  ELSE LET n == RunLength(s, cs)
       IN  IF n >= min
           THEN r \o ReplaceRuns(SubSeq(s, n + 1, Len(s)), cs, min, r)
           ELSE IF n > 0
                THEN SubSeq(s, 1, n) \o ReplaceRuns(SubSeq(s, n + 1, Len(s)), cs, min, r)
                ELSE <<Head(s)>> \o ReplaceRuns(Tail(s), cs, min, r)

\* s.split(sep) for a one-character separator class: the pieces between
\* maximal runs of at least one separator when runs is TRUE (a regular
\* expression /[cs]+/), between single separators otherwise.
RECURSIVE SplitAcc(_, _, _, _)
SplitAcc(s, cs, runs, cur) ==
  IF s = <<>> THEN <<cur>>
  ELSE IF Head(s) \in cs
       THEN LET n == IF runs THEN RunLength(s, cs) ELSE 1
            IN  <<cur>> \o SplitAcc(SubSeq(s, n + 1, Len(s)), cs, runs, <<>>)
       ELSE SplitAcc(Tail(s), cs, runs, Append(cur, Head(s)))

Split(s, cs, runs) == SplitAcc(s, cs, runs, <<>>)

\* The decimal digits of a natural number.
RECURSIVE NatToText(_)
NatToText(n) ==
  IF n < 10 THEN <<DigitChars[n + 1]>>
  ELSE NatToText(n \div 10) \o <<DigitChars[(n % 10) + 1]>>

\* Number.prototype.toString for an integer.
NumToText(n) == IF n < 0 THEN <<"-">> \o NatToText(-n) ELSE NatToText(n)

DigitValue(c) == IndexOf(DigitChars, c) - 1

\* The value of a run of decimal digits.
RECURSIVE DigitsValue(_)
DigitsValue(s) ==
  IF s = <<>> THEN 0
  ELSE 10 * DigitsValue(SubSeq(s, 1, Len(s) - 1)) + DigitValue(s[Len(s)])

(***************************************************************************)
(* Conversions                                                             *)
(***************************************************************************)
\* The text of a JavaScript string literal, character by character.
TextTrue == <<"t", "r", "u", "e">>

TextFalse == <<"f", "a", "l", "s", "e">>

TextNull == <<"n", "u", "l", "l">>

TextUndefined == <<"u", "n", "d", "e", "f", "i", "n", "e", "d">>

TextObject ==
  <<"[", "o", "b", "j", "e", "c", "t", " ", "O", "b", "j", "e", "c", "t", "]">>

\* String(v), which is also v.toString() where that is defined. An array is
\* the join of its elements by ",", null and undefined elements as "".
RECURSIVE ToStringValue(_)
RECURSIVE JoinValues(_)
ToStringValue(v) ==
  CASE v[1] = "str" -> v[2]
    [] v[1] = "num" -> NumToText(v[2])
    [] v[1] = "bool" -> IF v[2] THEN TextTrue ELSE TextFalse
    [] v[1] = "arr" -> JoinValues(v[2])
    [] v[1] = "obj" -> TextObject
    [] v[1] = "null" -> TextNull
    [] OTHER -> TextUndefined

JoinValues(xs) ==
  IF xs = <<>> THEN <<>>
  ELSE LET h == IF Head(xs)[1] \in {"null", "undef"} THEN <<>> ELSE ToStringValue(Head(xs))
       IN  IF Len(xs) = 1 THEN h ELSE h \o <<",">> \o JoinValues(Tail(xs))

\* parseFloat(v) and parseInt(v): the longest decimal prefix of String(v)
\* after leading whitespace, NaN when there is none. The model's texts have
\* no ".", no "+", no exponent and no radix prefix, so the two agree.
ParseNumber(v) ==
  LET s == TrimStart(ToStringValue(v))
      neg == s # <<>> /\ Head(s) = "-"
      body == IF neg THEN Tail(s) ELSE s
      n == RunLength(body, Range(DigitChars))
      mag == DigitsValue(SubSeq(body, 1, n))
  IN  [nan |-> n = 0, n |-> IF n = 0 THEN 0 ELSE IF neg THEN -mag ELSE mag]

\* parseFloat(v) || 0 and parseInt(v) || 0
NumberOrZero(v) == Num(IF ParseNumber(v).nan THEN 0 ELSE ParseNumber(v).n)

(***************************************************************************)
(* JSON.parse over the model's characters: objects, arrays, strings        *)
(* without escapes, integers, true, false, null, and spaces between        *)
(* tokens.                                                                 *)
(***************************************************************************)
JsonFail == [ok |-> FALSE, v |-> Undef, i |-> 0]

RECURSIVE SkipWs(_, _)
SkipWs(s, i) == IF i <= Len(s) /\ s[i] \in Whitespace THEN SkipWs(s, i + 1) ELSE i

At(s, i) == IF i >= 1 /\ i <= Len(s) THEN s[i] ELSE ""

HasLiteral(s, i, lit) ==
  i + Len(lit) - 1 <= Len(s) /\ SubSeq(s, i, i + Len(lit) - 1) = lit

\* A string token opening at i: the characters up to the next quote.
ParseString(s, i) ==
  IF At(s, i) # "\"" \/ ~ \E j \in (i + 1)..Len(s) : s[j] = "\"" THEN JsonFail
  ELSE LET j == CHOOSE j \in (i + 1)..Len(s) :
                  s[j] = "\"" /\ \A k \in (i + 1)..(j - 1) : s[k] # "\""
       IN  [ok |-> TRUE, v |-> Str(SubSeq(s, i + 1, j - 1)), i |-> j + 1]

\* A number token at i: "-"? then "0" or a digit run that does not start
\* with "0".
ParseInteger(s, i) ==
  LET neg == At(s, i) = "-"
      k == IF neg THEN i + 1 ELSE i
      run == IF k <= Len(s) THEN RunLength(SubSeq(s, k, Len(s)), Range(DigitChars)) ELSE 0
      n == IF run > 0 /\ s[k] = "0" THEN 1 ELSE run
      mag == DigitsValue(SubSeq(s, k, k + n - 1))
  IN  IF n = 0 THEN JsonFail
      ELSE [ok |-> TRUE, v |-> Num(IF neg THEN -mag ELSE mag), i |-> k + n]

\* obj[k] = v on a pair list: a repeated key keeps its place and takes the
\* later value.
PutKey(ps, k, v) ==
  IF \E n \in DOMAIN ps : ps[n][1] = k
  THEN [n \in DOMAIN ps |-> IF ps[n][1] = k THEN <<k, v>> ELSE ps[n]]
  ELSE Append(ps, <<k, v>>)

RECURSIVE ParseValue(_, _)
RECURSIVE ParseElements(_, _, _)
RECURSIVE ParseMembers(_, _, _)
ParseValue(s, i) ==
  LET j == SkipWs(s, i)
      c == At(s, j)
  IN  CASE c = "\"" -> ParseString(s, j)
        [] c = "[" ->
             IF At(s, SkipWs(s, j + 1)) = "]"
             THEN [ok |-> TRUE, v |-> Arr(<<>>), i |-> SkipWs(s, j + 1) + 1]
             ELSE ParseElements(s, j + 1, <<>>)
        [] c = "{" ->
             IF At(s, SkipWs(s, j + 1)) = "}"
             THEN [ok |-> TRUE, v |-> Obj(<<>>), i |-> SkipWs(s, j + 1) + 1]
             ELSE ParseMembers(s, j + 1, <<>>)
        [] c = "-" \/ c \in Range(DigitChars) -> ParseInteger(s, j)
        [] HasLiteral(s, j, TextTrue) -> [ok |-> TRUE, v |-> Bool(TRUE), i |-> j + 4]
        [] HasLiteral(s, j, TextFalse) -> [ok |-> TRUE, v |-> Bool(FALSE), i |-> j + 5]
        [] HasLiteral(s, j, TextNull) -> [ok |-> TRUE, v |-> Null, i |-> j + 4]
        [] OTHER -> JsonFail

ParseElements(s, i, acc) ==
  LET r == ParseValue(s, i)
      j == SkipWs(s, r.i)
  IN  IF ~ r.ok THEN JsonFail
      ELSE CASE At(s, j) = "," -> ParseElements(s, j + 1, Append(acc, r.v))
             [] At(s, j) = "]" -> [ok |-> TRUE, v |-> Arr(Append(acc, r.v)), i |-> j + 1]
             [] OTHER -> JsonFail

ParseMembers(s, i, acc) ==
  LET k == ParseString(s, SkipWs(s, i))
      c == SkipWs(s, k.i)
      r == ParseValue(s, c + 1)
      j == SkipWs(s, r.i)
  IN  IF ~ k.ok \/ At(s, c) # ":" THEN JsonFail
      ELSE IF ~ r.ok THEN JsonFail
      ELSE CASE At(s, j) = "," -> ParseMembers(s, j + 1, PutKey(acc, k.v[2], r.v))
             [] At(s, j) = "}" ->
                  [ok |-> TRUE, v |-> Obj(PutKey(acc, k.v[2], r.v)), i |-> j + 1]
             [] OTHER -> JsonFail

\* JSON.parse(text): ok is FALSE where JSON.parse throws a SyntaxError.
JsonParse(s) ==
  LET r == ParseValue(s, 1)
  IN  IF r.ok /\ SkipWs(s, r.i) = Len(s) + 1
      THEN [ok |-> TRUE, v |-> r.v]
      ELSE [ok |-> FALSE, v |-> Undef]

\* v.k for a nested value: the member of an object, undefined on any other
\* value that is not null or undefined (where the access throws).
Member(v, k) ==
  IF IsObj(v) /\ \E n \in DOMAIN v[2] : v[2][n][1] = k
  THEN v[2][CHOOSE n \in DOMAIN v[2] : v[2][n][1] = k][2]
  ELSE Undef

MemberThrows(v) == v[1] \in {"undef", "null"}

(***************************************************************************)
(* src/db.js: helpers                                                      *)
(***************************************************************************)
Entities == {"beans", "machines", "syrups", "sauces", "blogs", "orders", "coupons"}

\* The entities that keep inStock.
Products == {"beans", "machines", "syrups", "sauces"}

\* The entities that carry variants and cupping notes.
Consumables == {"beans", "syrups", "sauces"}

TextItem == <<"i", "t", "e", "m">>

TextMinRead == <<" ", "m", "i", "n", " ", "r", "e", "a", "d">>

TextUncategorized ==
  <<"U", "n", "c", "a", "t", "e", "g", "o", "r", "i", "z", "e", "d">>

TextPending == <<"P", "e", "n", "d", "i", "n", "g">>

TextPercentage == <<"p", "e", "r", "c", "e", "n", "t", "a", "g", "e">>

TextPrice == <<"p", "r", "i", "c", "e">>

IsWordOrHyphen(c) == c \in WordOrHyphen

\* A slugify without its last replacement.
SlugifyNoCollapse(text) ==
  SelectSeq(ReplaceRuns(Trim(ToLowerCase(ToStringValue(text))), Whitespace, 1, <<"-">>),
            IsWordOrHyphen)

\* slugify(text)
Slugify(text) ==
  LET lowered == ToLowerCase(ToStringValue(text))
      dashed == ReplaceRuns(Trim(lowered), Whitespace, 1, <<"-">>)
      stripped == SelectSeq(dashed, IsWordOrHyphen)
  IN  ReplaceRuns(stripped, {"-"}, 2, <<"-">>)

WordsPerMinute == 200

\* calculateReadTime(text): a truthy text that is no string has no split
\* method, and the call throws a TypeError.
CalculateReadTimeThrows(text) == Truthy(text) /\ ~ IsStr(text)

CalculateReadTime(text) ==
  LET words == IF Truthy(text) THEN Len(Split(text[2], Whitespace, TRUE)) ELSE 0
      minutes == (words + WordsPerMinute - 1) \div WordsPerMinute
  IN  Str(NatToText(minutes) \o TextMinRead)

\* v === "true" || v === true
Flag(v) == Bool(StrictEq(v, Str(TextTrue)) \/ StrictEq(v, Bool(TRUE)))

RECURSIVE TrimEach(_)
TrimEach(xs) ==
  IF xs = <<>> THEN <<>> ELSE <<Trim(Head(xs))>> \o TrimEach(Tail(xs))

RECURSIVE StrEach(_)
StrEach(xs) ==
  IF xs = <<>> THEN <<>> ELSE <<Str(Head(xs))>> \o StrEach(Tail(xs))

NonEmpty(s) == s # <<>>

\* A normalizeArray that would keep the segments as split.
NormalizeArrayUntrimmed(val) ==
  IF ~ Truthy(val) THEN Arr(<<>>)
  ELSE IF IsArr(val) THEN val
  ELSE IF IsStr(val) THEN Arr(StrEach(Split(val[2], {","}, FALSE)))
  ELSE Arr(<<val>>)

\* normalizeArray(val), the same function in create and in update.
NormalizeArray(val) ==
  IF ~ Truthy(val) THEN Arr(<<>>)
  ELSE IF IsArr(val) THEN val
  ELSE IF IsStr(val)
       THEN Arr(StrEach(SelectSeq(TrimEach(Split(val[2], {","}, FALSE)), NonEmpty)))
       ELSE Arr(<<val>>)

\* new Date().toLocaleDateString("en-GB") on day t of the month.
LocaleDate(t) == <<"0">> \o NatToText(t) \o <<"/", "1", "1", "/", "2", "0", "2", "6">>

\* new Date().toISOString() on day t of the month.
IsoInstant(t) ==
  <<"2", "0", "2", "6", "-", "1", "1", "-", "0">> \o NatToText(t)
    \o <<"T", "0", "0", ":", "0", "0", ":", "0", "0", ".", "0", "0", "0", "Z">>

\* The identifier nanoid(8) returns on its n-th call. nanoid draws from a
\* space of 64^8 identifiers; the model takes its results to be pairwise
\* different and different from every text a request held before the call.
IdText(n) == <<"i", "d">> \o NatToText(n)

\* JSON.stringify followed by JSON.parse on a document: a member whose value
\* is undefined is not written. (No other value of the model changes in the
\* round trip: it has no NaN, no Date and no function.)
JsonRoundTrip(doc) == [k \in {x \in DOMAIN doc : doc[x] # Undef} |-> doc[k]]

\* data.findIndex(item => item.id === identifier || item.slug === identifier),
\* 0 for "not found" (the code's -1).
Matches(item, identifier) ==
  StrictEq(Get(item, "id"), identifier) \/ StrictEq(Get(item, "slug"), identifier)

\* A findIndex that would return the last match instead of the first.
FindIndexLast(data, identifier) ==
  IF \E i \in DOMAIN data : Matches(data[i], identifier)
  THEN CHOOSE i \in DOMAIN data :
         Matches(data[i], identifier)
           /\ \A j \in (i + 1)..Len(data) : ~ Matches(data[j], identifier)
  ELSE 0

\* The place of the first match, as findIndex gives it.
FindIndex(data, identifier) ==
  IF \E i \in DOMAIN data : Matches(data[i], identifier)
  THEN CHOOSE i \in DOMAIN data :
         Matches(data[i], identifier) /\ \A j \in 1..(i - 1) : ~ Matches(data[j], identifier)
  ELSE 0

NotMatches(item, identifier) ==
  ~ StrictEq(Get(item, "id"), identifier) /\ ~ StrictEq(Get(item, "slug"), identifier)

\* A removal that would drop the first match alone.
FilterFirst(data, identifier) ==
  LET first == FindIndex(data, identifier)
  IN  IF first = 0 THEN data
      ELSE SubSeq(data, 1, first - 1) \o SubSeq(data, first + 1, Len(data))

\* data.filter(item => item.id !== identifier && item.slug !== identifier)
RECURSIVE FilterOut(_, _)
FilterOut(data, identifier) ==
  IF data = <<>> THEN <<>>
  ELSE IF NotMatches(Head(data), identifier)
       THEN <<Head(data)>> \o FilterOut(Tail(data), identifier)
       ELSE FilterOut(Tail(data), identifier)

(***************************************************************************)
(* src/db.js: create. Each step below takes the field bag item of the      *)
(* request and the document newItem built so far; the ...Throws predicates *)
(* say where the step throws, which ends create before anything is         *)
(* written.                                                                *)
(***************************************************************************)
\* const nameSource = item.name || item.title || "item"
NameSource(item) == Or(Or(Get(item, "name"), Get(item, "title")), Str(TextItem))

\* const newItem = { ...item, id, slug }
CreateIdentity(item, id) ==
  Spread(item, [id |-> Str(id), slug |-> Str(Slugify(NameSource(item)))])

\* Casting status flags; inStock only for products.
CreateInStock(entity, item, newItem) ==
  IF entity \in Products
  THEN Set(newItem, "inStock", Flag(Get(item, "inStock")))
  ELSE Delete(newItem, "inStock")

CreateFlags(entity, item, newItem) ==
  CreateInStock(entity, item, Set(newItem, "isFeatured", Flag(Get(item, "isFeatured"))))

\* Casting discount.
CreateDiscount(item, newItem) ==
  IF Truthy(Get(item, "discountPercentage"))
  THEN Set(newItem, "discountPercentage", NumberOrZero(Get(item, "discountPercentage")))
  ELSE newItem

\* Blog specific enhancements.
CreateBlogThrows(entity, item) ==
  entity = "blogs" /\ CalculateReadTimeThrows(Or(Get(item, "content"), Str(<<>>)))

CreateBlog(entity, item, newItem, now) ==
  IF entity # "blogs" THEN newItem
  ELSE Spread(newItem,
         [date |-> Str(LocaleDate(now)),
          readTime |-> CalculateReadTime(Or(Get(item, "content"), Str(<<>>))),
          category |-> Or(Or(Get(item, "category"), Get(item, "keyword")),
                          Str(TextUncategorized)),
          excerpt |-> Or(Get(item, "excerpt"), Str(<<>>))])

\* Normalizing array fields.
CreateArrays(item, newItem) ==
  Spread(newItem,
    [keywords |-> NormalizeArray(Get(item, "keywords")),
     images |-> IF IsArr(Get(item, "images")) THEN Get(item, "images") ELSE Arr(<<>>)])

\* typeof v === "string" ? JSON.parse(v) : v
ParsedIfString(v) == IF IsStr(v) THEN JsonParse(v[2]).v ELSE v

ParseThrows(v) == IsStr(v) /\ ~ JsonParse(v[2]).ok

\* variants[0].price throws on a first variant that is null.
FirstPriceThrows(variants) ==
  IsArr(variants) /\ Len(variants[2]) > 0 /\ MemberThrows(variants[2][1])

\* A variants branch that would leave the price as the payload gave it.
KeepPrice(target, variants) == Set(target, "variants", variants)

\* target.variants = variants, and target.price = variants[0].price when
\* variants is a non-empty array.
SyncPrice(target, variants) ==
  IF IsArr(variants) /\ Len(variants[2]) > 0
  THEN Spread(target, [variants |-> variants, price |-> Member(variants[2][1], TextPrice)])
  ELSE Set(target, "variants", variants)

\* A create that would swallow the parse error of variants.
CreateVariantsSwallows(entity, item) ==
  /\ entity \in Consumables
  /\ Truthy(Get(item, "variants"))
  /\ ~ ParseThrows(Get(item, "variants"))
  /\ FirstPriceThrows(ParsedIfString(Get(item, "variants")))

\* Consumables enhancements (variants).
CreateVariantsThrows(entity, item) ==
  /\ entity \in Consumables
  /\ Truthy(Get(item, "variants"))
  /\ \/ ParseThrows(Get(item, "variants"))
     \/ FirstPriceThrows(ParsedIfString(Get(item, "variants")))

CreateVariants(entity, item, newItem) ==
  IF entity \notin Consumables THEN newItem
  ELSE IF ~ Truthy(Get(item, "variants"))
       THEN Set(newItem, "cupping_notes", NormalizeArray(Get(item, "cupping_notes")))
       ELSE SyncPrice(Set(newItem, "cupping_notes", NormalizeArray(Get(item, "cupping_notes"))),
                      ParsedIfString(Get(item, "variants")))

\* Machine specific enhancements (dynamic props).
CreateMachineThrows(entity, item) ==
  /\ entity = "machines"
  /\ ParseThrows(Get(item, "specifications")) \/ ParseThrows(Get(item, "features"))

CreateMachine(entity, item, newItem) ==
  IF entity # "machines" THEN newItem
  ELSE Spread(newItem,
         [specifications |->
            IF IsStr(Get(item, "specifications"))
            THEN JsonParse(Get(item, "specifications")[2]).v
            ELSE Or(Get(item, "specifications"), Obj(<<>>)),
          features |->
            IF IsStr(Get(item, "features"))
            THEN JsonParse(Get(item, "features")[2]).v
            ELSE Or(Get(item, "features"), Obj(<<>>))])

\* Order specific enhancements.
CreateOrderThrows(entity, item) ==
  entity = "orders" /\ ParseThrows(Get(item, "items"))

\* The generic fields an order drops again.
OrderDropped == {"slug", "keywords", "images", "isFeatured"}

\* delete item.k for every k of keys.
DropKeys(item, keys) == [k \in (DOMAIN item) \ keys |-> item[k]]

\* An order branch that would keep the generic fields.
CreateOrderKeepsGeneric(entity, item, newItem, now) ==
  IF entity # "orders" THEN newItem
  ELSE Spread(newItem,
         [createdAt |-> Str(IsoInstant(now)),
          status |-> Or(Get(item, "status"), Str(TextPending)),
          items |->
            IF IsStr(Get(item, "items"))
            THEN JsonParse(Get(item, "items")[2]).v
            ELSE Or(Get(item, "items"), Arr(<<>>)),
          totalAmount |-> NumberOrZero(Get(item, "totalAmount")),
          isPaid |-> Flag(Get(item, "isPaid"))])

CreateOrder(entity, item, newItem, now) ==
  IF entity # "orders" THEN newItem
  ELSE DropKeys(CreateOrderKeepsGeneric(entity, item, newItem, now), OrderDropped)

\* Coupon specific enhancements: (item.code || "").toUpperCase() throws on a
\* truthy code that is no string.
CreateCouponThrows(entity, item) ==
  entity = "coupons" /\ ~ IsStr(Or(Get(item, "code"), Str(<<>>)))

\* A coupon branch that would take currentUses from the field bag.
CreateCouponKeepsUses(entity, item, newItem) ==
  IF entity # "coupons" THEN newItem
  ELSE Spread(newItem,
         [isActive |-> Flag(Get(item, "isActive")),
          value |-> NumberOrZero(Get(item, "value")),
          maxUses |-> NumberOrZero(Get(item, "maxUses")),
          maxDiscount |-> NumberOrZero(Get(item, "maxDiscount")),
          currentUses |-> NumberOrZero(Get(item, "currentUses")),
          expiryDate |-> Or(Get(item, "expiryDate"), Str(<<>>)),
          type |-> Or(Get(item, "type"), Str(TextPercentage)),
          code |-> Str(ToUpperCase(Or(Get(item, "code"), Str(<<>>))[2]))])

CreateCoupon(entity, item, newItem) ==
  IF entity # "coupons" THEN newItem
  ELSE Spread(newItem,
         [isActive |-> Flag(Get(item, "isActive")),
          value |-> NumberOrZero(Get(item, "value")),
          maxUses |-> NumberOrZero(Get(item, "maxUses")),
          maxDiscount |-> NumberOrZero(Get(item, "maxDiscount")),
          currentUses |-> Num(0),
          expiryDate |-> Or(Get(item, "expiryDate"), Str(<<>>)),
          type |-> Or(Get(item, "type"), Str(TextPercentage)),
          code |-> Str(ToUpperCase(Or(Get(item, "code"), Str(<<>>))[2]))])

CreateThrows(entity, item) ==
  \/ CreateBlogThrows(entity, item)
  \/ CreateVariantsThrows(entity, item)
  \/ CreateMachineThrows(entity, item)
  \/ CreateOrderThrows(entity, item)
  \/ CreateCouponThrows(entity, item)

\* The document create builds for item: the newItem it pushes and returns.
NewItem(entity, item, id, now) ==
  CreateCoupon(entity, item,
    CreateOrder(entity, item,
      CreateMachine(entity, item,
        CreateVariants(entity, item,
          CreateArrays(item,
            CreateBlog(entity, item,
              CreateDiscount(item,
                CreateFlags(entity, item,
                  CreateIdentity(item, id))),
              now)))),
      now))

(***************************************************************************)
(* src/db.js: update. Each step takes the updates object as the steps      *)
(* before it left it, and returns it as the code's assignments leave it.   *)
(***************************************************************************)
\* A parse that would keep the text it cannot parse.
ParseOrKeep(updates, k, fallback) ==
  IF Truthy(Get(updates, k)) /\ IsStr(Get(updates, k)) /\ ~ ParseThrows(updates[k])
  THEN Set(updates, k, ParsedIfString(updates[k]))
  ELSE updates

\* try { updates.k = JSON.parse(updates.k) } catch (e) { updates.k = fallback }
\* under the guard updates.k && typeof updates.k === "string".
ParseOrFallback(updates, k, fallback) ==
  IF Truthy(Get(updates, k)) /\ IsStr(Get(updates, k))
  THEN Set(updates, k, IF ParseThrows(updates[k]) THEN fallback ELSE ParsedIfString(updates[k]))
  ELSE updates

\* Parsing dynamic props if they are strings.
UpdateProps(updates) ==
  ParseOrFallback(ParseOrFallback(updates, "specifications", Obj(<<>>)),
                  "features", Obj(<<>>))

\* updates.k = updates.k === "true" || updates.k === true, when updates has k.
UpdateFlag(updates, k) ==
  IF k \in DOMAIN updates THEN Set(updates, k, Flag(updates[k])) ELSE updates

\* updates.k = parseFloat(updates.k) || 0, or parseInt, when updates has k.
UpdateNumber(updates, k) ==
  IF k \in DOMAIN updates THEN Set(updates, k, NumberOrZero(updates[k])) ELSE updates

\* An update that would cast inStock for every entity.
UpdateInStockAlways(entity, updates) == UpdateFlag(updates, "inStock")

\* inStock is cast for products and deleted from the updates of the others.
UpdateInStock(entity, updates) ==
  IF entity \in Products THEN UpdateFlag(updates, "inStock") ELSE Delete(updates, "inStock")

\* Core status flag updates.
UpdateFlags(entity, updates) ==
  UpdateNumber(UpdateInStock(entity, UpdateFlag(updates, "isFeatured")),
               "discountPercentage")

\* Blog specific update enhancements.
UpdateBlogThrows(entity, updates) ==
  /\ entity = "blogs"
  /\ Truthy(Get(updates, "content"))
  /\ CalculateReadTimeThrows(Get(updates, "content"))

UpdateBlog(entity, updates) ==
  IF entity = "blogs" /\ Truthy(Get(updates, "content"))
  THEN Set(updates, "readTime", CalculateReadTime(updates["content"]))
  ELSE updates

\* updates.k = normalizeArray(updates.k), when updates has k.
UpdateArray(updates, k) ==
  IF k \in DOMAIN updates THEN Set(updates, k, NormalizeArray(updates[k])) ELSE updates

\* Normalizing updates (if present).
UpdateArrays(updates) == UpdateArray(UpdateArray(updates, "keywords"), "cupping_notes")

\* Consumables update enhancements (variants): the try block parses and
\* syncs the price, the catch block leaves variants empty.
UpdateVariants(entity, updates) ==
  IF entity \in Consumables /\ Truthy(Get(updates, "variants"))
  THEN IF \/ ParseThrows(updates["variants"])
          \/ FirstPriceThrows(ParsedIfString(updates["variants"]))
       THEN Set(updates, "variants", Arr(<<>>))
       ELSE SyncPrice(updates, ParsedIfString(updates["variants"]))
  ELSE updates

\* Order items that arrive as a string.
UpdateItems(entity, updates) ==
  IF entity = "orders" THEN ParseOrFallback(updates, "items", Arr(<<>>)) ELSE updates

\* Coupon fields: (updates.code || "").toUpperCase() throws on a truthy code
\* that is no string.
UpdateCouponThrows(entity, updates) ==
  /\ entity = "coupons"
  /\ "code" \in DOMAIN updates
  /\ ~ IsStr(Or(updates["code"], Str(<<>>)))

\* updates.code = (updates.code || "").toUpperCase(), when updates has code.
UpdateCode(updates) ==
  IF "code" \in DOMAIN updates
  THEN Set(updates, "code", Str(ToUpperCase(Or(updates["code"], Str(<<>>))[2])))
  ELSE updates

UpdateCoupon(entity, updates) ==
  IF entity # "coupons" THEN updates
  ELSE UpdateCode(
         UpdateNumber(
           UpdateNumber(
             UpdateNumber(UpdateFlag(updates, "isActive"), "value"),
             "maxUses"),
           "maxDiscount"))

UpdateThrows(entity, updates) ==
  UpdateBlogThrows(entity, updates) \/ UpdateCouponThrows(entity, updates)

\* The updates object as update has rewritten it when it reaches the merge.
Normalized(entity, updates) ==
  UpdateCoupon(entity,
    UpdateItems(entity,
      UpdateVariants(entity,
        UpdateArrays(
          UpdateBlog(entity,
            UpdateFlags(entity,
              UpdateProps(updates)))))))

\* An update that would store the payload in place of the document, its id
\* kept.
Overwritten(previous, entity, updates) ==
  Spread([k \in DOMAIN previous \cap {"id"} |-> previous[k]], Normalized(entity, updates))

\* data[index] = { ...data[index], ...updates }
Merged(previous, entity, updates) == Spread(previous, Normalized(entity, updates))

(***************************************************************************)
(* The requests the model explores                                         *)
(***************************************************************************)
\* The number of documents created in a behaviour.
MaxIds == 2

\* The number of updates applied in a behaviour.
MaxUpdates == 1

\* The days on which a request can arrive.
Instants == {1}

Quote == "\""

NameA == <<"A", "b">>

NameB == <<" ", "a", " ", " ", "B", "!">>

TextMissing == <<"z", "z">>

\* [{"price":5},{"price":9}]
VariantsText ==
  <<"[", "{", Quote, "p", "r", "i", "c", "e", Quote, ":", "5", "}", ",",
    "{", Quote, "p", "r", "i", "c", "e", Quote, ":", "9", "}", "]">>

\* [{"price":7}]
VariantsText2 ==
  <<"[", "{", Quote, "p", "r", "i", "c", "e", Quote, ":", "7", "}", "]">>

\* {not json
BadJson == <<"{", "n", "o", "t", " ", "j", "s", "o", "n">>

\* [null]
NullFirstText == <<"[", "n", "u", "l", "l", "]">>

\* {"w":1}
PropsText == <<"{", Quote, "w", Quote, ":", "1", "}">>

\* [{"q":2}]
ItemsText == <<"[", "{", Quote, "q", Quote, ":", "2", "}", "]">>

\* [{"size":"1"}]
NoPriceText ==
  <<"[", "{", Quote, "s", "i", "z", "e", Quote, ":", Quote, "1", Quote, "}", "]">>

\* Fields every entity's create reads, as a form posts them (all strings).
FormFields ==
  [name |-> Str(NameA), isFeatured |-> Str(TextTrue), inStock |-> Str(TextTrue),
   discountPercentage |-> Str(<<"1", "5">>), keywords |-> Str(<<"a", ",", " ", "b", ",">>),
   images |-> Arr(<<Str(<<"x">>)>>)]

\* The same fields as a JSON body can carry them, with identity fields and
\* values of other types. Once an identifier is issued the title repeats the
\* first one, so that a slug can equal another document's id.
JsonFields(issued) ==
  [title |-> IF issued = 0 THEN Str(NameB) ELSE Str(IdText(1)),
   id |-> Str(TextMissing), slug |-> Str(TextMissing),
   isFeatured |-> Bool(TRUE), inStock |-> Str(<<"y", "e", "s">>),
   discountPercentage |-> Str(<<"a", "b", "c">>), keywords |-> Arr(<<Str(<<"k">>)>>),
   images |-> Str(<<"x">>)]

\* Entity fields in textual form. The three consumables run the same code,
\* and each takes another shape of variants.
FormExtras(entity) ==
  CASE entity = "beans" ->
         [cupping_notes |-> Str(<<"x", ",", "y">>), variants |-> Str(VariantsText),
          price |-> Str(<<"1", "0">>)]
    [] entity = "syrups" ->
         [variants |-> Str(NoPriceText), price |-> Str(<<"1", "0">>)]
    [] entity = "sauces" ->
         [cupping_notes |-> Arr(<<Str(<<"x">>)>>),
          variants |-> Arr(<<Obj(<< <<TextPrice, Num(5)>> >>)>>)]
    [] entity = "machines" ->
         [specifications |-> Str(PropsText), features |-> Str(<<"[", "]">>)]
    [] entity = "blogs" ->
         [content |-> Str(<<"a", " ", "b">>), category |-> Str(<<"c">>),
          excerpt |-> Str(<<"e">>)]
    [] entity = "orders" ->
         [items |-> Str(ItemsText), totalAmount |-> Str(<<"2", "5">>),
          isPaid |-> Str(TextTrue), status |-> Str(<<"D", "o", "n", "e">>)]
    [] OTHER ->
         [code |-> Str(<<"s", "a", "v", "e", "2", "0">>), currentUses |-> Num(50),
          isActive |-> Str(TextTrue), value |-> Str(<<"1", "0">>),
          maxUses |-> Str(<<"5">>), maxDiscount |-> Str(<<"x">>),
          type |-> Str(<<"f", "l", "a", "t">>), expiryDate |-> Str(<<"d">>)]

\* Entity fields in structured form, empty, or left out.
JsonExtras(entity) ==
  CASE entity = "beans" -> [variants |-> Str(<<>>), price |-> Str(<<"1", "0">>)]
    [] entity = "syrups" -> [variants |-> Str(<<"5">>)]
    [] entity = "sauces" ->
         [variants |-> Str(TextNull), price |-> Num(3), discountPercentage |-> Str(<<>>)]
    [] entity = "machines" -> [specifications |-> Obj(<< <<<<"w">>, Num(1)>> >>)]
    [] entity = "blogs" ->
         [content |-> Str(<<>>), keyword |-> Str(<<"k">>), keywords |-> Str(<<>>)]
    [] entity = "orders" ->
         [items |-> Arr(<<Num(1)>>), totalAmount |-> Num(7), isPaid |-> Bool(TRUE),
          inStock |-> Bool(TRUE)]
    [] OTHER -> [currentUses |-> Str(<<"9">>), isActive |-> Bool(FALSE), value |-> Num(3)]

\* Field bags on which create throws.
BadBags(entity) ==
  CASE entity \in {"beans", "sauces"} -> {[name |-> Str(NameA), variants |-> Str(BadJson)]}
    [] entity = "syrups" ->
         {[name |-> Str(NameA), variants |-> Str(BadJson)],
          [name |-> Str(NameA), variants |-> Str(NullFirstText)]}
    [] entity = "machines" ->
         {[name |-> Str(NameA), specifications |-> Str(BadJson)],
          [name |-> Str(NameA), features |-> Str(<<>>)]}
    [] entity = "blogs" -> {[title |-> Str(NameA), content |-> Num(5)]}
    [] entity = "orders" -> {[items |-> Str(BadJson)], [items |-> Str(<<>>)]}
    [] OTHER -> {[code |-> Num(5)]}

\* The entities whose second field bag carries the entity fields alone, so
\* that every generic field, name and title included, is absent from it.
SparseEntities == {"syrups", "machines", "coupons"}

\* The field bags create is called with, after issued identifiers were
\* issued.
CreateBags(entity, issued) ==
  {Spread(FormFields, FormExtras(entity)),
   IF entity \in SparseEntities
   THEN JsonExtras(entity)
   ELSE Spread(JsonFields(issued), JsonExtras(entity))} \cup BadBags(entity)

\* An edit of every field update looks at, in textual form.
EditBag ==
  [name |-> Str(NameB), title |-> Str(NameA), isFeatured |-> Str(TextFalse),
   inStock |-> Str(TextTrue), discountPercentage |-> Str(<<"7">>),
   keywords |-> Str(<<"q">>), variants |-> Str(VariantsText2),
   price |-> Str(<<"9", "9">>), specifications |-> Str(PropsText),
   items |-> Str(ItemsText), content |-> Str(<<"a", " ", "b", " ", "c">>),
   code |-> Str(<<"n", "e", "w", "1">>), isActive |-> Str(TextTrue),
   value |-> Str(<<"3">>), isPaid |-> Str(TextTrue), images |-> Str(<<"x">>)]

\* A payload with identity fields, and with nested fields that are empty or
\* cannot be parsed; which of the two depends on the entity, so that every
\* nested field takes both shapes.
OddBag(entity) ==
  [id |-> Str(IdText(1)), slug |-> Str(TextMissing),
   variants |->
     CASE entity = "syrups" -> Str(NullFirstText)
       [] entity = "sauces" -> Str(<<>>)
       [] OTHER -> Str(BadJson),
   specifications |-> IF entity \in Consumables THEN Str(<<>>) ELSE Str(BadJson),
   features |-> IF entity = "machines" THEN Str(<<>>) ELSE Str(BadJson),
   items |-> Str(BadJson),
   price |-> Str(<<"1">>),
   keywords |-> Str(<<>>)]

\* Further payloads of one entity: those on which update throws, empty
\* order items and an empty blog content.
MoreBags(entity) ==
  CASE entity = "blogs" -> {[content |-> Num(5)], [content |-> Str(<<>>)]}
    [] entity = "coupons" -> {[code |-> Num(5)]}
    [] entity = "orders" -> {[items |-> Str(<<>>)]}
    [] OTHER -> {}

\* The payloads update is called with.
UpdateBags(entity) == {EditBag, OddBag(entity)} \cup MoreBags(entity)

(***************************************************************************)
(* State: the data directory, the last call of the db object, the uploads  *)
(* directory and the last HTTP exchange. The db object works on the first  *)
(* four variables only; its callers say what becomes of the other two.     *)
(***************************************************************************)
VARIABLES
  files,      \* entity -> the file data/<entity>.json
  nextId,     \* the number of identifiers nanoid has issued, plus one
  nUpdates,   \* the number of updates applied
  ret,        \* the last call of the db object: its arguments and its result
  uploads,    \* the names of the files in the uploads directory
  res,        \* the last request the server answered, and its status
  reqs        \* the POST requests in flight: client -> how far it has come

vars == <<files, nextId, nUpdates, ret, uploads, res, reqs>>

http == <<uploads, res, reqs>>

Clients == {1, 2}

\* A client with no request in flight.
Idle ==
  [pc |-> "idle", entity |-> "", origs |-> <<>>, names |-> <<>>,
   kind |-> "none", doc |-> EmptyBag, before |-> <<>>]

NoRequest == [method |-> "", valid |-> FALSE, status |-> 0]

Missing == [state |-> "missing", data |-> <<>>]

Corrupt == [state |-> "corrupt", data |-> <<>>]

\* readData(entity) on the directory dir: no file and a file JSON.parse
\* rejects both read as [].
DataOf(dir, entity) == IF dir[entity].state = "ok" THEN dir[entity].data ELSE <<>>

ReadData(entity) == DataOf(files, entity)

\* writeData(entity, data): what a later readData parses back.
Written(data) == [state |-> "ok", data |-> [i \in DOMAIN data |-> JsonRoundTrip(data[i])]]

\* findByIdOrSlug(data, identifier): absent is the empty bag here, and the
\* kind field of a result says which it is.
FindByIdOrSlug(data, identifier) ==
  IF FindIndex(data, identifier) = 0 THEN EmptyBag ELSE data[FindIndex(data, identifier)]

NoCall ==
  [op |-> "none", entity |-> "", identifier |-> Undef, item |-> EmptyBag,
   kind |-> "none", doc |-> EmptyBag, list |-> <<>>]

\* The identifiers a request can name: every id and slug string stored, the
\* identifier of the last call, and one that names nothing.
Identifiers(entity) ==
  {v \in {Get(ReadData(entity)[i], "id") : i \in DOMAIN ReadData(entity)}
           \cup {Get(ReadData(entity)[i], "slug") : i \in DOMAIN ReadData(entity)}
           \cup {ret.identifier} : IsStr(v)}
    \cup {Str(TextMissing)}

\* The behaviours explored address one entity: a request for entity is
\* taken while no other entity's file exists.
Focus(entity) == \A x \in Entities \ {entity} : files[x].state = "missing"

Served == {entity \in Entities : Focus(entity)}

Init ==
  /\ \E c \in Entities \cup {"none"} :
       files = [e \in Entities |-> IF e = c THEN Corrupt ELSE Missing]
  /\ nextId = 1
  /\ nUpdates = 0
  /\ uploads = {}
  /\ res = NoRequest
  /\ reqs = [p \in Clients |-> Idle]
  /\ ret = NoCall

\* A getAll that would write back what it read.
GetAllHeals(entity) ==
  /\ ret' = [NoCall EXCEPT !.op = "getAll", !.entity = entity, !.kind = "list",
                           !.list = ReadData(entity)]
  /\ files' = [files EXCEPT ![entity] = Written(ReadData(entity))]
  /\ UNCHANGED <<nextId, nUpdates>>

\* A getAll that would let the parse error of a corrupt file through.
GetAllRaises(entity) ==
  /\ ret' = [NoCall EXCEPT !.op = "getAll", !.entity = entity,
                           !.kind = IF files[entity].state = "corrupt" THEN "error" ELSE "list",
                           !.list = ReadData(entity)]
  /\ UNCHANGED <<files, nextId, nUpdates>>

\* db.getAll(entity)
GetAll(entity) ==
  /\ ret' = [NoCall EXCEPT !.op = "getAll", !.entity = entity, !.kind = "list",
                           !.list = ReadData(entity)]
  /\ UNCHANGED <<files, nextId, nUpdates>>

\* db.getByIdOrSlug(entity, identifier)
GetByIdOrSlug(entity, identifier) ==
  LET data == ReadData(entity)
      found == FindByIdOrSlug(data, identifier)
  IN  /\ ret' = [NoCall EXCEPT !.op = "getByIdOrSlug", !.entity = entity,
                               !.identifier = identifier,
                               !.kind = IF FindIndex(data, identifier) = 0 THEN "null" ELSE "doc",
                               !.doc = found]
      /\ UNCHANGED <<files, nextId, nUpdates>>

\* The record of a call, before its outcome is known.
CallOf(op, entity, identifier, item) ==
  [NoCall EXCEPT !.op = op, !.entity = entity, !.identifier = identifier, !.item = item]

\* A call that ends without a write: a null result, or an exception.
Returns(call, kind) ==
  /\ ret' = [call EXCEPT !.kind = kind]
  /\ UNCHANGED <<files, nextId, nUpdates>>

\* A create that would put the new document first.
Unshifted(entity, call, newItem) ==
  /\ files' = [files EXCEPT ![entity] = Written(<<newItem>> \o ReadData(entity))]
  /\ nextId' = nextId + 1
  /\ ret' = [call EXCEPT !.kind = "doc", !.doc = newItem]
  /\ UNCHANGED nUpdates

\* data.push(newItem); writeData(entity, data); return newItem
Pushed(entity, call, newItem) ==
  /\ files' = [files EXCEPT ![entity] = Written(Append(ReadData(entity), newItem))]
  /\ nextId' = nextId + 1
  /\ ret' = [call EXCEPT !.kind = "doc", !.doc = newItem]
  /\ UNCHANGED nUpdates

\* db.create(entity, item)
Create(entity, item, now) ==
  /\ nextId <= MaxIds
  /\ IF CreateThrows(entity, item)
     THEN Returns(CallOf("create", entity, Undef, item), "error")
     ELSE Pushed(entity, CallOf("create", entity, Undef, item),
                 NewItem(entity, item, IdText(nextId), now))

\* data[index] = merged; writeData(entity, data); return data[index]
Replaced(entity, call, index, merged) ==
  /\ nUpdates < MaxUpdates
  /\ files' = [files EXCEPT ![entity] =
                 Written(IF index = 0 THEN ReadData(entity)
                         ELSE [ReadData(entity) EXCEPT ![index] = merged])]
  /\ nUpdates' = nUpdates + 1
  /\ ret' = [call EXCEPT !.kind = "doc", !.doc = merged]
  /\ UNCHANGED nextId

\* The stored document at index, nothing at the code's index -1.
Previous(data, index) == IF index = 0 THEN EmptyBag ELSE data[index]

\* An update that would merge and write without the check of the index.
UpdateUnchecked(entity, identifier, updates) ==
  /\ ~ UpdateThrows(entity, updates)
  /\ Replaced(entity, CallOf("update", entity, identifier, updates),
              FindIndex(ReadData(entity), identifier),
              Merged(Previous(ReadData(entity), FindIndex(ReadData(entity), identifier)),
                     entity, updates))

\* db.update(entity, identifier, updates)
Update(entity, identifier, updates) ==
  IF FindIndex(ReadData(entity), identifier) = 0
  THEN Returns(CallOf("update", entity, identifier, updates), "null")
  ELSE IF UpdateThrows(entity, updates)
       THEN Returns(CallOf("update", entity, identifier, updates), "error")
       ELSE Replaced(entity, CallOf("update", entity, identifier, updates),
                     FindIndex(ReadData(entity), identifier),
                     Merged(Previous(ReadData(entity), FindIndex(ReadData(entity), identifier)),
                            entity, updates))

\* A delete that would filter the identifier out of every collection.
RemovedEverywhere(entity, call, newData, itemToDelete) ==
  /\ files' = [e \in Entities |->
                 IF e = entity THEN Written(newData)
                 ELSE IF files[e].state = "ok"
                      THEN Written(FilterOut(DataOf(files, e), call.identifier))
                      ELSE files[e]]
  /\ ret' = [call EXCEPT !.kind = "doc", !.doc = itemToDelete]
  /\ UNCHANGED <<nextId, nUpdates>>

\* writeData(entity, newData); return itemToDelete
Removed(entity, call, newData, itemToDelete) ==
  /\ files' = [files EXCEPT ![entity] = Written(newData)]
  /\ ret' = [call EXCEPT !.kind = "doc", !.doc = itemToDelete]
  /\ UNCHANGED <<nextId, nUpdates>>

\* db.delete(entity, identifier)
DeleteItem(entity, identifier) ==
  IF FindIndex(ReadData(entity), identifier) = 0
  THEN Returns(CallOf("delete", entity, identifier, EmptyBag), "null")
  ELSE Removed(entity, CallOf("delete", entity, identifier, EmptyBag),
               FilterOut(ReadData(entity), identifier),
               FindByIdOrSlug(ReadData(entity), identifier))

\* The calls that write: create, update and delete.
Next ==
  \/ \E entity \in Served :
       \E item \in CreateBags(entity, nextId - 1), now \in Instants :
         Create(entity, item, now) /\ UNCHANGED http
  \/ \E entity \in Served :
       \E identifier \in Identifiers(entity), updates \in UpdateBags(entity) :
         Update(entity, identifier, updates) /\ UNCHANGED http
  \/ \E entity \in Served :
       \E identifier \in Identifiers(entity) :
         DeleteItem(entity, identifier) /\ UNCHANGED http

Spec == Init /\ [][Next]_vars

\* The calls that read: getAll and getByIdOrSlug.
Reads ==
  \/ \E entity \in Served : GetAll(entity) /\ UNCHANGED http
  \/ \E entity \in Served :
       \E identifier \in Identifiers(entity) :
         GetByIdOrSlug(entity, identifier) /\ UNCHANGED http

NextReads == Next \/ Reads

\* Every call of the db object, reads included.
SpecReads == Init /\ [][NextReads]_vars

(***************************************************************************)
(* slugify on its own: the texts up to MaxText characters over a small     *)
(* alphabet of letters, whitespace, hyphen, underscore and punctuation,    *)
(* each slugified directly and as the name or title of a created document. *)
(***************************************************************************)
MaxText == 3

SlugChars == {" ", "-", "A", "b", "!", "_"}

RECURSIVE TextsUpTo(_)
TextsUpTo(n) ==
  IF n = 0 THEN {<<>>}
  ELSE TextsUpTo(n - 1)
         \cup {Append(t, c) : t \in {u \in TextsUpTo(n - 1) : Len(u) = n - 1}, c \in SlugChars}

ExampleText ==
  <<" ", " ", "E", "t", "h", "i", "o", "p", "i", "a", " ", " ", " ",
    "Y", "i", "r", "g", "a", "c", "h", "e", "f", "f", "e", "!", "!">>

ExampleSlug ==
  <<"e", "t", "h", "i", "o", "p", "i", "a", "-",
    "y", "i", "r", "g", "a", "c", "h", "e", "f", "f", "e">>

SlugTexts == TextsUpTo(MaxText) \cup {ExampleText}

\* The field bags that carry a text as name, as title, or as both.
NamedBags(text) ==
  { [name |-> text],
    [title |-> text],
    [name |-> Str(<<>>), title |-> text],
    [name |-> text, title |-> Str(TextMissing)],
    EmptyBag }

InitSlugify ==
  /\ files = [e \in Entities |-> Missing]
  /\ nextId = 1
  /\ nUpdates = 0
  /\ uploads = {}
  /\ res = NoRequest
  /\ reqs = [p \in Clients |-> Idle]
  /\ ret \in {[NoCall EXCEPT !.op = "text", !.identifier = Str(t)] : t \in SlugTexts}

SlugifyCall ==
  /\ ret.op = "text"
  /\ ret' = [ret EXCEPT !.op = "slugify", !.kind = "text", !.list = Slugify(ret.identifier)]
  /\ UNCHANGED <<files, nextId, nUpdates, uploads, res, reqs>>

CreateNamed ==
  /\ ret.op = "text"
  /\ \E entity \in {"beans", "blogs"}, item \in NamedBags(ret.identifier), now \in Instants :
       Create(entity, item, now) /\ UNCHANGED http

NextSlugify == SlugifyCall \/ CreateNamed

SpecSlugify == InitSlugify /\ [][NextSlugify]_vars

(***************************************************************************)
(* calculateReadTime on its own: the contents up to MaxContent characters  *)
(* of letters and whitespace, each measured directly and as the content of *)
(* a created blogs document.                                               *)
(***************************************************************************)
MaxContent == 6

RECURSIVE ContentsUpTo(_)
ContentsUpTo(n) ==
  IF n = 0 THEN {<<>>}
  ELSE ContentsUpTo(n - 1)
         \cup {Append(t, c) : t \in {u \in ContentsUpTo(n - 1) : Len(u) = n - 1},
                              c \in {"a", " "}}

Contents == ContentsUpTo(MaxContent)

\* A blogs field bag with the content, and one without content.
ContentBags(text) == {[title |-> Str(NameA), content |-> text], [title |-> Str(NameA)]}

InitReadTime ==
  /\ files = [e \in Entities |-> Missing]
  /\ nextId = 1
  /\ nUpdates = 0
  /\ uploads = {}
  /\ res = NoRequest
  /\ reqs = [p \in Clients |-> Idle]
  /\ ret \in {[NoCall EXCEPT !.op = "text", !.identifier = Str(t)] : t \in Contents}

CalculateReadTimeCall ==
  /\ ret.op = "text"
  /\ ret' = [ret EXCEPT !.op = "calculateReadTime", !.kind = "text",
                        !.list = CalculateReadTime(ret.identifier)[2]]
  /\ UNCHANGED <<files, nextId, nUpdates, uploads, res, reqs>>

CreateWithContent ==
  /\ ret.op = "text"
  /\ \E item \in ContentBags(ret.identifier), now \in Instants :
       Create("blogs", item, now) /\ UNCHANGED http

NextReadTime == CalculateReadTimeCall \/ CreateWithContent

SpecReadTime == InitReadTime /\ [][NextReadTime]_vars

(***************************************************************************)
(* The server (index.js): the auth middleware in front of the entity       *)
(* routes, and the routes' use of the db object and of the uploads         *)
(* directory. index.js holds two versions of the middleware, one verifying *)
(* a JWT cookie and one comparing an API key; a request is served by       *)
(* either.                                                                 *)
(***************************************************************************)
\* s.startsWith(p)
StartsWith(s, p) == Len(p) <= Len(s) /\ SubSeq(s, 1, Len(p)) = p

\* s.endsWith(p)
EndsWith(s, p) == Len(p) <= Len(s) /\ SubSeq(s, Len(s) - Len(p) + 1, Len(s)) = p

\* s.includes(p)
Includes(s, p) == \E i \in 0..(Len(s) - Len(p)) : SubSeq(s, i + 1, i + Len(p)) = p

TextApi == <<"/", "a", "p", "i", "/">>

TextUploads == <<"/", "u", "p", "l", "o", "a", "d", "s", "/">>

TextCss == <<".", "c", "s", "s">>

TextJs == <<".", "j", "s">>

TextSheetjs == <<"s", "h", "e", "e", "t", "j", "s">>

\* A product name whose slug is "sheetjs".
NameSheet == <<"S", "h", "e", "e", "t", "J", "S">>

EntityText(entity) ==
  CASE entity = "beans" -> <<"b", "e", "a", "n", "s">>
    [] entity = "machines" -> <<"m", "a", "c", "h", "i", "n", "e", "s">>
    [] entity = "syrups" -> <<"s", "y", "r", "u", "p", "s">>
    [] entity = "sauces" -> <<"s", "a", "u", "c", "e", "s">>
    [] entity = "blogs" -> <<"b", "l", "o", "g", "s">>
    [] entity = "orders" -> <<"o", "r", "d", "e", "r", "s">>
    [] OTHER -> <<"c", "o", "u", "p", "o", "n", "s">>

\* /api/<entity> and /api/<entity>/<identifier>
PathOf(entity, identifier) ==
  TextApi \o EntityText(entity)
    \o (IF IsStr(identifier) THEN <<"/">> \o identifier[2] ELSE <<>>)

PublicPaths ==
  { <<"/", "l", "o", "g", "i", "n">>,
    <<"/", "l", "o", "g", "i", "n", ".", "h", "t", "m", "l">>,
    <<"/", "a", "p", "i", "/", "l", "o", "g", "i", "n">>,
    <<"/", "l", "o", "g", "o", ".", "p", "n", "g">> }

Versions == {"jwt", "apikey"}

\* The token the running server accepts, and one it does not.
GoodToken == Str(<<"k">>)

BadToken == Str(<<"x">>)

\* What a request carries: the admin_token cookie and the x-api-key header.
Credentials ==
  { [cookie |-> Undef, key |-> Undef],
    [cookie |-> GoodToken, key |-> Undef],
    [cookie |-> BadToken, key |-> Undef],
    [cookie |-> Undef, key |-> GoodToken] }

\* A request; json says that it is an XHR or accepts JSON.
Req(method, entity, identifier, c, json) ==
  [method |-> method, path |-> PathOf(entity, identifier),
   cookie |-> c.cookie, key |-> c.key, json |-> json]

\* The first condition of authMiddleware: the paths let through unchecked.
Bypassed(version, req) ==
  \/ req.path \in PublicPaths
  \/ StartsWith(req.path, TextUploads)
  \/ EndsWith(req.path, TextCss)
  \/ EndsWith(req.path, TextJs)
  \/ Includes(req.path, TextSheetjs)
  \/ version = "apikey" /\ req.method = "GET" /\ StartsWith(req.path, TextApi)

\* The token authMiddleware looks at.
TokenOf(version, req) ==
  IF version = "jwt" THEN req.cookie ELSE Or(req.cookie, req.key)

\* authMiddleware(req, res, next): 0 for next(), else the status it answers
\* with: 401 to a request that wants JSON, the redirect to /login otherwise.
AuthMiddleware(version, req) ==
  IF Bypassed(version, req) THEN 0
  ELSE IF Truthy(TokenOf(version, req)) /\ TokenOf(version, req) = GoodToken THEN 0
  ELSE IF req.json THEN 401
  ELSE 302

\* The exchange as res records it.
Answered(req, status) ==
  [method |-> req.method, valid |-> (req.cookie = GoodToken \/ req.key = GoodToken),
   status |-> status]

\* The entities whose routes the requests explored address: one of each
\* shape of POST route (upload.array, upload.single, the plain body).
Routed == Served \cap {"beans", "blogs", "coupons"}

\* opt-<Date.now()>-<originalname>.webp, the clock read as n
FileName(n, k) ==
  <<"o", "p", "t", "-">> \o NatToText(n) \o <<"-", k, ".", "w", "e", "b", "p">>

\* The file names multer and optimizeImages leave in req.files or req.file.
UploadedNames(entity, n) ==
  CASE entity \in {"orders", "coupons"} -> {<<>>}
    [] entity = "blogs" -> {<<>>, <<FileName(n, "a")>>}
    [] OTHER -> {<<>>, <<FileName(n, "a"), FileName(n, "b")>>}

\* The body of POST requests, and the body of PUT requests.
PostBody == [name |-> Str(NameSheet)]

PutBody == [status |-> Str(<<"D", "o", "n", "e">>)]

\* const payload = { ...req.body, images: req.files.map((file) => file.filename) }
Payload(entity, body, names) ==
  IF entity = "coupons" THEN body
  ELSE Set(body, "images", Arr([i \in DOMAIN names |-> Str(names[i])]))

\* The number of elements deletedItem.images.forEach visits before
\* path.join throws on one that is no string.
Visited(xs) ==
  IF \A i \in DOMAIN xs : IsStr(xs[i]) THEN Len(xs)
  ELSE (CHOOSE i \in DOMAIN xs : ~ IsStr(xs[i]) /\ \A j \in 1..(i - 1) : IsStr(xs[j])) - 1

UnlinkThrows(doc) ==
  IsArr(Get(doc, "images")) /\ Visited(Get(doc, "images")[2]) < Len(Get(doc, "images")[2])

\* A DELETE route that would leave the files alone.
UnlinkedNone(dir, doc) == dir

\* Physical deletion of images: the directory without the files named in
\* deletedItem.images.
Unlinked(dir, doc) ==
  IF IsArr(Get(doc, "images"))
  THEN dir \ {Get(doc, "images")[2][i][2] : i \in 1..Visited(Get(doc, "images")[2])}
  ELSE dir

\* authMiddleware answers and no route runs: the exchange makes no call of
\* the db object.
Rejected(version, req) ==
  /\ AuthMiddleware(version, req) # 0
  /\ res' = Answered(req, AuthMiddleware(version, req))
  /\ ret' = NoCall
  /\ UNCHANGED <<files, nextId, nUpdates, uploads, reqs>>

\* app.get(`/api/${entity}`)
ListRoute(version, req, entity) ==
  /\ AuthMiddleware(version, req) = 0
  /\ GetAll(entity)
  /\ res' = Answered(req, 200)
  /\ UNCHANGED <<uploads, reqs>>

\* app.get(`/api/${entity}/:identifier`)
ItemRoute(version, req, entity, identifier) ==
  /\ AuthMiddleware(version, req) = 0
  /\ GetByIdOrSlug(entity, identifier)
  /\ res' = Answered(req, IF ret'.kind = "null" THEN 404 ELSE 200)
  /\ UNCHANGED <<uploads, reqs>>

\* app.delete(`/api/${entity}/:identifier`)
DeleteRoute(version, req, entity, identifier) ==
  /\ AuthMiddleware(version, req) = 0
  /\ DeleteItem(entity, identifier)
  /\ uploads' = IF ret'.kind = "null" THEN uploads ELSE Unlinked(uploads, ret'.doc)
  /\ res' = Answered(req, IF ret'.kind = "null" THEN 404
                          ELSE IF UnlinkThrows(ret'.doc) THEN 500 ELSE 200)
  /\ UNCHANGED reqs

\* app.post(`/api/${entity}`): the uploaded files are stored, then the
\* document is created; an exception of db.create is answered with 500.
PostRoute(version, req, entity, names, now) ==
  /\ AuthMiddleware(version, req) = 0
  /\ Create(entity, Payload(entity, PostBody, names), now)
  /\ uploads' = uploads \cup Range(names)
  /\ res' = Answered(req, IF ret'.kind = "error" THEN 500 ELSE 200)
  /\ UNCHANGED reqs

\* app.put("/api/coupons/:identifier")
PutRoute(version, req, entity, identifier, body) ==
  /\ AuthMiddleware(version, req) = 0
  /\ Update(entity, identifier, body)
  /\ res' = Answered(req, IF ret'.kind = "null" THEN 404
                          ELSE IF ret'.kind = "error" THEN 500 ELSE 200)
  /\ UNCHANGED <<uploads, reqs>>

\* Whether the request wants JSON only chooses the form of a rejection;
\* the routes are taken with requests that do.
NextHttp ==
  \/ \E version \in Versions, c \in Credentials, json \in BOOLEAN, entity \in Routed :
       \E method \in {"GET", "POST", "PUT", "DELETE"},
          identifier \in Identifiers(entity) \cup {Undef} :
         /\ (method = "POST") => (identifier = Undef)
         /\ (method \in {"PUT", "DELETE"}) => (identifier # Undef)
         /\ Rejected(version, Req(method, entity, identifier, c, json))
  \/ \E version \in Versions, c \in Credentials, entity \in Routed :
       ListRoute(version, Req("GET", entity, Undef, c, TRUE), entity)
  \/ \E version \in Versions, c \in Credentials, entity \in Routed :
       \E identifier \in Identifiers(entity) :
         ItemRoute(version, Req("GET", entity, identifier, c, TRUE), entity, identifier)
  \/ \E version \in Versions, c \in Credentials, entity \in Routed :
       \E identifier \in Identifiers(entity) :
         DeleteRoute(version, Req("DELETE", entity, identifier, c, TRUE), entity, identifier)
  \/ \E version \in Versions, c \in Credentials, entity \in Routed :
       \E names \in UploadedNames(entity, nextId), now \in Instants :
         PostRoute(version, Req("POST", entity, Undef, c, TRUE), entity, names, now)
  \/ \E version \in Versions, c \in Credentials :
       \E identifier \in Identifiers("coupons") :
         /\ "coupons" \in Routed
         /\ PutRoute(version, Req("PUT", "coupons", identifier, c, TRUE),
                     "coupons", identifier, PutBody)

InitHttp ==
  /\ files = [e \in Entities |-> Missing]
  /\ nextId = 1
  /\ nUpdates = 0
  /\ uploads = {}
  /\ res = NoRequest
  /\ reqs = [p \in Clients |-> Idle]
  /\ ret = NoCall

SpecHttp == InitHttp /\ [][NextHttp]_vars

(***************************************************************************)
(* Two collections side by side                                            *)
(***************************************************************************)
\* Two entities whose documents get the same slugs from the same names, so
\* that one identifier names a document in each.
Shelves == {"beans", "sauces"}

NextShelves ==
  \/ \E entity \in Shelves :
       \E item \in CreateBags(entity, nextId - 1), now \in Instants :
         Create(entity, item, now) /\ UNCHANGED http
  \/ \E entity \in Shelves :
       \E identifier \in Identifiers(entity), updates \in UpdateBags(entity) :
         Update(entity, identifier, updates) /\ UNCHANGED http
  \/ \E entity \in Shelves :
       \E identifier \in Identifiers(entity) :
         DeleteItem(entity, identifier) /\ UNCHANGED http

SpecShelves == InitHttp /\ [][NextShelves]_vars

(***************************************************************************)
(* Two POST requests in flight                                             *)
(*                                                                         *)
(* Node runs one callback at a time.  A POST request with uploads passes   *)
(* through three callbacks: multer has stored the files, optimizeImages    *)
(* resumes after its awaits, and the route handler runs.  The handler and  *)
(* db.create use readFileSync and writeFileSync and have no await, so the  *)
(* load, push and save of one create lie within one callback.              *)
(***************************************************************************)
\* The entities whose POST routes run optimizeImages before the handler,
\* one with upload.array and one with upload.single.
Posted == {"beans", "blogs"}

\* req.files or req.file of a request, as the original names of the files.
Originals(entity) ==
  IF entity = "blogs" THEN {<<>>, <<"a">>} ELSE {<<>>, <<"a", "b">>}

\* multer's filename: `${Date.now()}-${file.originalname}`
StoredName(n, k) == NatToText(n) \o <<"-", k>>

\* The credential the requests in flight carry.
Admin == [cookie |-> GoodToken, key |-> Undef]

\* The request reaches the server and multer stores its files; a blog
\* without a file passes optimizeImages in the same callback.
Arrive(p, entity, origs, now) ==
  /\ reqs[p].pc = "idle"
  /\ AuthMiddleware("jwt", Req("POST", entity, Undef, Admin, TRUE)) = 0
  /\ reqs' = [reqs EXCEPT ![p] =
                [Idle EXCEPT !.pc = IF entity = "blogs" /\ origs = <<>>
                                    THEN "optimized" ELSE "stored",
                             !.entity = entity,
                             !.origs = origs,
                             !.names = [i \in DOMAIN origs |-> StoredName(now, origs[i])],
                             !.before = ReadData(entity)]]
  /\ uploads' = uploads \cup {StoredName(now, origs[i]) : i \in DOMAIN origs}
  /\ UNCHANGED <<files, nextId, nUpdates, ret, res>>

\* processFile succeeds on the files still stored under their name; sharp
\* rejects a missing input, and the catch leaves file.filename as it was.
Optimized(r) == {i \in DOMAIN r.names : r.names[i] \in uploads}

\* optimizeImages resumes after await Promise.all(...) and calls next().
Optimize(p, now) ==
  /\ reqs[p].pc = "stored"
  /\ reqs' = [reqs EXCEPT ![p].pc = "optimized",
                          ![p].names = [i \in DOMAIN reqs[p].names |->
                                          IF i \in Optimized(reqs[p])
                                          THEN FileName(now, reqs[p].origs[i])
                                          ELSE reqs[p].names[i]]]
  /\ uploads' = (uploads \ {reqs[p].names[i] : i \in Optimized(reqs[p])})
                   \cup {FileName(now, reqs[p].origs[i]) : i \in Optimized(reqs[p])}
  /\ UNCHANGED <<files, nextId, nUpdates, ret, res>>

\* A handler that would push onto the collection as it was when the
\* request arrived, and save that.
HandleStale(p, now) ==
  /\ reqs[p].pc = "optimized"
  /\ nextId <= MaxIds
  /\ files' = [files EXCEPT ![reqs[p].entity] =
                 Written(Append(reqs[p].before,
                                NewItem(reqs[p].entity,
                                        Payload(reqs[p].entity, PostBody, reqs[p].names),
                                        IdText(nextId), now)))]
  /\ nextId' = nextId + 1
  /\ ret' = [CallOf("create", reqs[p].entity, Undef,
                    Payload(reqs[p].entity, PostBody, reqs[p].names))
               EXCEPT !.kind = "doc",
                      !.doc = NewItem(reqs[p].entity,
                                      Payload(reqs[p].entity, PostBody, reqs[p].names),
                                      IdText(nextId), now)]
  /\ reqs' = [reqs EXCEPT ![p].pc = "done", ![p].kind = ret'.kind, ![p].doc = ret'.doc]
  /\ res' = Answered(Req("POST", reqs[p].entity, Undef, Admin, TRUE), 200)
  /\ UNCHANGED <<nUpdates, uploads>>

\* The route handler: payload, db.create, res.json, in one callback.
Handle(p, now) ==
  /\ reqs[p].pc = "optimized"
  /\ Create(reqs[p].entity, Payload(reqs[p].entity, PostBody, reqs[p].names), now)
  /\ reqs' = [reqs EXCEPT ![p].pc = "done", ![p].kind = ret'.kind, ![p].doc = ret'.doc]
  /\ res' = Answered(Req("POST", reqs[p].entity, Undef, Admin, TRUE),
                     IF ret'.kind = "error" THEN 500 ELSE 200)
  /\ UNCHANGED uploads

NextPosts ==
  \/ \E p \in Clients, entity \in Posted, now \in Instants :
       \E origs \in Originals(entity) : Arrive(p, entity, origs, now)
  \/ \E p \in Clients, now \in Instants : Optimize(p, now)
  \/ \E p \in Clients, now \in Instants : Handle(p, now)

SpecPosts == InitHttp /\ [][NextPosts]_vars

(***************************************************************************)
(* Properties                                                              *)
(***************************************************************************)
\* The place of the first document of data that identifier names, 0 if none.
FirstNamed(data, identifier) ==
  IF \A i \in DOMAIN data : ~ Matches(data[i], identifier) THEN 0
  ELSE CHOOSE i \in DOMAIN data :
         /\ Matches(data[i], identifier)
         /\ \A j \in DOMAIN data : Matches(data[j], identifier) => i <= j

CreatedDoc == ret.op = "create" /\ ret.kind = "doc"

\* C1 as stated: after create(entity, bag) returned d, getByIdOrSlug(entity,
\* d.id) and getByIdOrSlug(entity, d.slug) both return a document equal to d
\* (equal as JSON, the form in which a document is read back).
C1_CreateThenGetReturnsIt ==
  CreatedDoc =>
    LET data == ReadData(ret.entity)
    IN  /\ FindByIdOrSlug(data, Get(ret.doc, "id")) = JsonRoundTrip(ret.doc)
        /\ FindByIdOrSlug(data, Get(ret.doc, "slug")) = JsonRoundTrip(ret.doc)

\* C1 amended: after create returned d, d is the last stored document,
\* getByIdOrSlug by d.id returns a document equal to d, and getByIdOrSlug by
\* d.slug returns the first stored document whose id or slug equals d.slug:
\* that is d when no document stored before d has that id or slug, and the
\* earlier document otherwise (for an order, which has no slug, the first
\* stored order).
C1_CreateThenGetReturnsFirstNamed ==
  CreatedDoc =>
    LET data == ReadData(ret.entity)
        n == Len(data)
        bySlug == FirstNamed(data, Get(ret.doc, "slug"))
    IN  /\ n > 0 /\ data[n] = JsonRoundTrip(ret.doc)
        /\ FindByIdOrSlug(data, Get(ret.doc, "id")) = JsonRoundTrip(ret.doc)
        /\ bySlug # 0
        /\ FindByIdOrSlug(data, Get(ret.doc, "slug")) = data[bySlug]
        /\ bySlug = n => FindByIdOrSlug(data, Get(ret.doc, "slug")) = JsonRoundTrip(ret.doc)

\* C1 witness: a create into a collection that already holds a document with
\* another slug, so that the lookup by slug passes it over.
C1_Witness ==
  /\ CreatedDoc
  /\ Len(ReadData(ret.entity)) >= 2
  /\ IsStr(Get(ret.doc, "slug"))
  /\ FirstNamed(ReadData(ret.entity), Get(ret.doc, "slug")) = Len(ReadData(ret.entity))

UpdatedDoc == ret.op = "update" /\ ret.kind = "doc"

\* C2 as stated: update never changes a document's id or slug. In a step in
\* which update returns a document, the document it matched has the same id
\* and slug before and after, stored and returned.
C2_UpdateKeepsIdentity ==
  [][UpdatedDoc' =>
       LET before == DataOf(files, ret'.entity)
           after == DataOf(files', ret'.entity)
           i == FirstNamed(before, ret'.identifier)
       IN  /\ Get(after[i], "id") = Get(before[i], "id")
           /\ Get(after[i], "slug") = Get(before[i], "slug")
           /\ Get(ret'.doc, "id") = Get(before[i], "id")
           /\ Get(ret'.doc, "slug") = Get(before[i], "slug")]_vars

\* C3 as stated: no two documents of one collection have the same id.
C3_IdsUnique ==
  \A entity \in Entities :
    \A i, j \in DOMAIN ReadData(entity) :
      i # j => Get(ReadData(entity)[i], "id") # Get(ReadData(entity)[j], "id")

DeletedDoc == ret.op = "delete" /\ ret.kind = "doc"

\* data without its i-th document.
WithoutAt(data, i) == SubSeq(data, 1, i - 1) \o SubSeq(data, i + 1, Len(data))

\* C4 as stated: delete removes exactly one document, the first that the
\* identifier names; every other document is still stored after the call.
C4_DeleteRemovesOne ==
  [][DeletedDoc' =>
       LET before == DataOf(files, ret'.entity)
       IN  DataOf(files', ret'.entity)
             = WithoutAt(before, FirstNamed(before, ret'.identifier))]_vars

\* C5: a delete that matches returns the first document the identifier
\* names; the collection read back holds neither that document nor any
\* document the identifier names; and a delete that directly follows with
\* the same identifier returns absent.
C5_DeleteThenAbsent ==
  [][/\ DeletedDoc' =>
          LET before == DataOf(files, ret'.entity)
              after == DataOf(files', ret'.entity)
          IN  /\ FirstNamed(before, ret'.identifier) # 0
              /\ ret'.doc = before[FirstNamed(before, ret'.identifier)]
              /\ \A j \in DOMAIN after :
                   after[j] # ret'.doc /\ ~ Matches(after[j], ret'.identifier)
     /\ (/\ DeletedDoc
         /\ ret'.op = "delete"
         /\ ret'.entity = ret.entity
         /\ ret'.identifier = ret.identifier) => ret'.kind = "null"]_vars

\* C5 witness: a delete returned absent for an identifier that was issued,
\* so that the document it named was deleted before.
C5_Witness ==
  /\ ret.op = "delete" /\ ret.kind = "null"
  /\ \E n \in 1..(nextId - 1) : ret.identifier = Str(IdText(n))
  /\ ReadData(ret.entity) # <<>>

\* C6: an update whose identifier names no stored document returns absent
\* and leaves the data directory as it was.
C6_UpdateMissingIsNoOp ==
  [][(/\ ret'.op = "update"
      /\ FirstNamed(DataOf(files, ret'.entity), ret'.identifier) = 0)
       => (ret'.kind = "null" /\ files' = files)]_vars

\* C6 witness: update returned absent on a collection that holds documents.
C6_Witness ==
  ret.op = "update" /\ ret.kind = "null" /\ Len(ReadData(ret.entity)) >= 2

\* A text that JSON.parse rejects.
Unparseable(v) == IsStr(v) /\ ~ JsonParse(v[2]).ok

\* C7 as stated: a create whose nested field is a text that cannot be
\* parsed (variants on a consumable, specifications or features on a
\* machine, items on an order) fails, and the data directory is unchanged.
C7_UnparseableCreateFails ==
  [][(/\ ret'.op = "create"
      /\ \/ ret'.entity \in {"beans", "syrups", "sauces"}
              /\ Unparseable(Get(ret'.item, "variants"))
         \/ ret'.entity = "machines"
              /\ (Unparseable(Get(ret'.item, "specifications"))
                    \/ Unparseable(Get(ret'.item, "features")))
         \/ ret'.entity = "orders" /\ Unparseable(Get(ret'.item, "items")))
       => (ret'.kind = "error" /\ files' = files)]_vars

\* C7 amended: the same, for a variants text that is not empty (an empty
\* variants string is not parsed: the document is created and keeps it),
\* and for every unparseable specifications, features or items text, the
\* empty one included.
C7_NonEmptyUnparseableCreateFails ==
  [][(/\ ret'.op = "create"
      /\ \/ ret'.entity \in {"beans", "syrups", "sauces"}
              /\ Unparseable(Get(ret'.item, "variants"))
              /\ Get(ret'.item, "variants") # Str(<<>>)
         \/ ret'.entity = "machines"
              /\ (Unparseable(Get(ret'.item, "specifications"))
                    \/ Unparseable(Get(ret'.item, "features")))
         \/ ret'.entity = "orders" /\ Unparseable(Get(ret'.item, "items")))
       => (ret'.kind = "error" /\ files' = files)]_vars

\* C7 witness: a create with an unparseable variants text failed on a
\* collection that holds a document.
C7_Witness ==
  /\ ret.op = "create" /\ ret.kind = "error"
  /\ ret.entity \in {"beans", "syrups", "sauces"}
  /\ Unparseable(Get(ret.item, "variants"))
  /\ ReadData(ret.entity) # <<>>

\* What C8 says of an update that matched with payload item: it returned
\* and stored the merged document, with variants (consumables) and items
\* (orders) the empty sequence and specifications and features the empty
\* mapping wherever the payload's text for them satisfies bad.
StoredFallbacks(entity, item, kind, doc, stored, bad(_)) ==
  /\ kind = "doc"
  /\ stored = JsonRoundTrip(doc)
  /\ (entity \in {"beans", "syrups", "sauces"} /\ bad(Get(item, "variants")))
       => Get(stored, "variants") = Arr(<<>>)
  /\ (entity = "orders" /\ bad(Get(item, "items"))) => Get(stored, "items") = Arr(<<>>)
  /\ bad(Get(item, "specifications")) => Get(stored, "specifications") = Obj(<<>>)
  /\ bad(Get(item, "features")) => Get(stored, "features") = Obj(<<>>)

\* An update that matched and did not throw on content or code.
UpdateMatched ==
  /\ ret'.op = "update"
  /\ FirstNamed(DataOf(files, ret'.entity), ret'.identifier) # 0
  /\ ret'.kind # "error"

NonEmptyUnparseable(v) == Unparseable(v) /\ v # Str(<<>>)

\* C8 as stated: on a matching identifier an unparseable variants or items
\* string is stored as the empty sequence, an unparseable specifications or
\* features string as the empty mapping, and the update is persisted and
\* returns the merged document.
C8_UnparseableUpdateFallsBack ==
  [][UpdateMatched =>
       LET i == FirstNamed(DataOf(files, ret'.entity), ret'.identifier)
       IN  StoredFallbacks(ret'.entity, ret'.item, ret'.kind, ret'.doc,
                           DataOf(files', ret'.entity)[i], Unparseable)]_vars

\* C8 amended: the same for texts that are not empty; an empty string in
\* one of the four fields is not parsed and is stored as it is.
C8_NonEmptyUnparseableUpdateFallsBack ==
  [][UpdateMatched =>
       LET i == FirstNamed(DataOf(files, ret'.entity), ret'.identifier)
       IN  StoredFallbacks(ret'.entity, ret'.item, ret'.kind, ret'.doc,
                           DataOf(files', ret'.entity)[i], NonEmptyUnparseable)]_vars

\* C8 witness: an update of a bean with an unparseable variants text was
\* stored with empty variants.
C8_Witness ==
  /\ UpdatedDoc /\ ret.entity = "beans"
  /\ NonEmptyUnparseable(Get(ret.item, "variants"))
  /\ Get(ret.doc, "variants") = Arr(<<>>)

\* C9: the document create("orders", bag) returns and the document it
\* stores have none of the keys slug, keywords, images, isFeatured.
C9_OrderDropsGenericFields ==
  (CreatedDoc /\ ret.entity = "orders") =>
    LET data == ReadData("orders")
    IN  /\ data # <<>>
        /\ data[Len(data)] = JsonRoundTrip(ret.doc)
        /\ \A k \in {"slug", "keywords", "images", "isFeatured"} :
             k \notin DOMAIN ret.doc /\ k \notin DOMAIN data[Len(data)]

\* C9 witness: an order was created from a bag that held all four keys.
C9_Witness ==
  /\ CreatedDoc /\ ret.entity = "orders"
  /\ {"slug", "keywords", "images", "isFeatured"} \subseteq DOMAIN ret.item

\* C10: the document create("coupons", bag) produces has currentUses 0
\* whatever the bag held, and code the upper-cased code string of the bag
\* ("SAVE20" for "save20"), the empty string when the bag has no code.
C10_CouponCodeAndUses ==
  (CreatedDoc /\ ret.entity = "coupons") =>
    LET code == Get(ret.item, "code")
        stored == ReadData("coupons")[Len(ReadData("coupons"))]
    IN  /\ Get(ret.doc, "currentUses") = Num(0)
        /\ Get(stored, "currentUses") = Num(0)
        /\ Get(stored, "code") = Get(ret.doc, "code")
        /\ IsStr(Get(ret.doc, "code"))
        /\ code = Undef => Get(ret.doc, "code") = Str(<<>>)
        /\ IsStr(code) =>
             /\ Len(Get(ret.doc, "code")[2]) = Len(code[2])
             /\ \A i \in DOMAIN code[2] :
                  /\ Get(ret.doc, "code")[2][i] \notin Range(LowerLetters)
                  /\ ToLowerChar(Get(ret.doc, "code")[2][i]) = ToLowerChar(code[2][i])
        /\ code = Str(<<"s", "a", "v", "e", "2", "0">>)
             => Get(ret.doc, "code") = Str(<<"S", "A", "V", "E", "2", "0">>)

\* C10 witness: a coupon was created from a bag with code "save20" and
\* currentUses 50.
C10_Witness ==
  /\ CreatedDoc /\ ret.entity = "coupons"
  /\ Get(ret.item, "code") = Str(<<"s", "a", "v", "e", "2", "0">>)
  /\ Get(ret.item, "currentUses") = Num(50)

\* What a variants value resolves to: the parsed text when it is a text
\* JSON.parse accepts, the value itself when it is no text.
Resolved(v) ==
  IF IsStr(v) THEN (IF JsonParse(v[2]).ok THEN JsonParse(v[2]).v ELSE Undef) ELSE v

\* A non-empty sequence whose first element is a variant (an object).
HasFirstVariant(v) == IsArr(v) /\ Len(v[2]) > 0 /\ IsObj(v[2][1])

\* The place of the document a create or update step wrote.
Touched ==
  IF ret'.op = "create" THEN Len(DataOf(files', ret'.entity))
  ELSE FirstNamed(DataOf(files, ret'.entity), ret'.identifier)

\* C11: for beans, syrups and sauces, a create or update whose variants
\* resolve to a non-empty sequence of variants stores and returns as price
\* the price of the first variant (no price when that variant has none),
\* whatever price the payload itself carried; [{"price":5},{"price":9}]
\* gives price 5.
C11_PriceFollowsFirstVariant ==
  [][(/\ ret'.op \in {"create", "update"} /\ ret'.kind = "doc"
      /\ ret'.entity \in {"beans", "syrups", "sauces"}
      /\ HasFirstVariant(Resolved(Get(ret'.item, "variants"))))
       => /\ Get(ret'.doc, "price")
               = Member(Resolved(Get(ret'.item, "variants"))[2][1], TextPrice)
          /\ Get(DataOf(files', ret'.entity)[Touched], "price") = Get(ret'.doc, "price")
          /\ Get(ret'.item, "variants") = Str(VariantsText)
               => Get(DataOf(files', ret'.entity)[Touched], "price") = Num(5)]_vars

\* C11 witness: an update of a bean with variants [{"price":7}] and its own
\* price "99" returned price 7.
C11_Witness ==
  /\ UpdatedDoc /\ ret.entity = "beans"
  /\ Get(ret.item, "variants") = Str(VariantsText2)
  /\ Get(ret.item, "price") = Str(<<"9", "9">>)
  /\ Get(ret.doc, "price") = Num(7)

\* C12: a getAll or getByIdOrSlug step leaves every persisted collection
\* (and the uploads directory) as it was, and a getAll that directly follows
\* a getAll of the same entity returns an equal sequence.
C12_ReadsChangeNothing ==
  [][/\ ret'.op \in {"getAll", "getByIdOrSlug"} => (files' = files /\ uploads' = uploads)
     /\ (ret.op = "getAll" /\ ret'.op = "getAll" /\ ret'.entity = ret.entity)
          => ret'.list = ret.list]_vars

\* C12 witness: a getAll returned a collection of two documents.
C12_Witness == ret.op = "getAll" /\ Len(ret.list) >= 2 /\ ret.list = ReadData(ret.entity)

\* C13: on an entity whose collection was never persisted or is
\* unparseable, getAll returns the empty sequence, and getByIdOrSlug, update
\* and delete return absent; none of them raises.
C13_LoadNeverRaises ==
  [][(ret'.op # "create" /\ ret'.op # "none" /\ files[ret'.entity].state # "ok")
       => /\ ret'.kind # "error"
          /\ ret'.op = "getAll" => (ret'.kind = "list" /\ ret'.list = <<>>)
          /\ ret'.op \in {"getByIdOrSlug", "update", "delete"} => ret'.kind = "null"]_vars

\* C13 witness: getAll returned the empty sequence for an unparseable file.
C13_Witness ==
  ret.op = "getAll" /\ files[ret.entity].state = "corrupt" /\ ret.list = <<>>

\* The characters of s outside cs, in order.
Without(s, cs) == SelectSeq(s, LAMBDA c : c \notin cs)

\* The number of maximal runs of characters of cs in s.
RECURSIVE Runs(_, _)
Runs(s, cs) ==
  IF s = <<>> THEN 0
  ELSE IF Head(s) \in cs
       THEN 1 + Runs(SubSeq(s, RunLength(s, cs) + 1, Len(s)), cs)
       ELSE Runs(Tail(s), cs)

SlugOut == Range(LowerLetters) \cup Range(DigitChars) \cup {"_", "-"}

\* C16: the slug of a text holds only characters of [a-z0-9_-] and no two
\* adjacent hyphens; without its hyphens it is the lower-cased text without
\* the characters outside [A-Za-z0-9_]; it has at most one hyphen per run of
\* whitespace or hyphens of the trimmed text, and exactly one per whitespace
\* run of a trimmed text of letters and whitespace;
\* slugify("  Ethiopia   Yirgacheffe!!") is "ethiopia-yirgacheffe"; and a
\* created document's slug is the slug of name, else title, else "item".
C16_Slugify ==
  /\ ret.op = "slugify" =>
       /\ Range(ret.list) \subseteq SlugOut
       /\ \A i \in 1..(Len(ret.list) - 1) : ~ (ret.list[i] = "-" /\ ret.list[i + 1] = "-")
       /\ Without(ret.list, {"-"})
            = Without(SelectSeq(ToLowerCase(ret.identifier[2]), IsWordOrHyphen), {"-"})
       /\ Runs(ret.list, {"-"}) = Len(SelectSeq(ret.list, LAMBDA c : c = "-"))
       /\ Runs(ret.list, {"-"}) <= Runs(Trim(ret.identifier[2]), Whitespace \cup {"-"})
       /\ Range(ret.identifier[2]) \subseteq {"A", "b", " "}
            => Runs(ret.list, {"-"}) = Runs(Trim(ret.identifier[2]), Whitespace)
       /\ ret.identifier = Str(ExampleText) => ret.list = ExampleSlug
  /\ (ret.op = "create" /\ ret.kind = "doc") =>
       /\ Get(ret.doc, "slug")
            = Str(Slugify(IF Truthy(Get(ret.item, "name")) THEN Get(ret.item, "name")
                          ELSE IF Truthy(Get(ret.item, "title")) THEN Get(ret.item, "title")
                          ELSE Str(TextItem)))
       /\ ret.item = EmptyBag => Get(ret.doc, "slug") = Str(TextItem)
       /\ ret.item = [name |-> Str(<<>>), title |-> Str(ExampleText)]
            => Get(ret.doc, "slug") = Str(ExampleSlug)

\* C16 witness: the text "- -" was slugified: its whitespace became a
\* hyphen and the three hyphens were collapsed to one.
C16_Witness ==
  ret.op = "slugify" /\ ret.identifier = Str(<<"-", " ", "-">>) /\ ret.list = <<"-">>

\* The number of words of a content: the positions where a run of characters
\* that are no whitespace starts; none for a content that is absent.
Words(content) ==
  IF IsStr(content)
  THEN Cardinality({i \in DOMAIN content[2] :
                      /\ content[2][i] \notin Whitespace
                      /\ (i = 1 \/ content[2][i - 1] \in Whitespace)})
  ELSE 0

\* "N min read" for w words
MinRead(w) == Str(NatToText((w + 199) \div 200) \o TextMinRead)

\* C17: a created blogs document has readTime "N min read" with
\* N = ceil(w / 200), w the number of whitespace-separated words of content;
\* content without a word, empty content and absent content give
\* "0 min read".
C17_ReadTimeOfWords ==
  (ret.op = "create" /\ ret.entity = "blogs" /\ ret.kind = "doc")
    => /\ Get(ret.doc, "readTime") = MinRead(Words(Get(ret.item, "content")))
       /\ Words(Get(ret.item, "content")) = 0
            => Get(ret.doc, "readTime") = Str(<<"0">> \o TextMinRead)

\* The boolean fields of an entity's documents.
FlagFields(entity) ==
  (IF entity = "orders" THEN {"isPaid"} ELSE {"isFeatured"})
    \cup (IF entity \in Products THEN {"inStock"} ELSE {})
    \cup (IF entity = "coupons" THEN {"isActive"} ELSE {})

\* C18: after a create or an update that was given a boolean field of the
\* entity, the stored document holds the boolean true for the string "true"
\* and the boolean true, and the boolean false for every other value.
C18_FlagsCoercedAlike ==
  (ret.op \in {"create", "update"} /\ ret.kind = "doc")
    => \A f \in FlagFields(ret.entity) \cap DOMAIN ret.item :
         Get(ret.doc, f) = Bool(Get(ret.item, f) \in {Str(TextTrue), Bool(TRUE)})

\* C19: no stored document of an entity other than beans, machines, syrups
\* and sauces has an inStock key, and neither has a document returned by
\* create or update for such an entity.
C19_NoInStockOutsideProducts ==
  /\ \A entity \in Entities \ Products :
       \A i \in DOMAIN ReadData(entity) : "inStock" \notin DOMAIN ReadData(entity)[i]
  /\ (ret.kind = "doc" /\ ret.op \in {"create", "update"} /\ ret.entity \notin Products)
       => "inStock" \notin DOMAIN ret.doc

\* C19 witness: an update carrying inStock was applied to a document of
\* another entity, itself created from a field bag carrying inStock.
C19_Witness ==
  /\ UpdatedDoc
  /\ ret.entity \in Entities \ Products
  /\ "inStock" \in DOMAIN ret.item
  /\ Len(ReadData(ret.entity)) > 0
  /\ ret.doc \in Range(ReadData(ret.entity))

\* The numeric fields create fills for an entity.
NumericFields(entity) ==
  {"discountPercentage"} \cup (IF entity = "coupons" THEN {"value", "maxDiscount"} ELSE {})

\* C20: a created document holds, for discountPercentage and for value and
\* maxDiscount of coupons, the number the input parses to, and 0 when the
\* input cannot be parsed or the field is absent from the field bag.
C20_NumericDefaults ==
  CreatedDoc =>
    \A f \in NumericFields(ret.entity) : Get(ret.doc, f) = NumberOrZero(Get(ret.item, f))

\* C14 as stated: a request under /api/ (none of them /api/login) that
\* carries no valid credential, neither as cookie nor as API key, is
\* answered with 401 or with the redirect by the auth middleware, makes no
\* call of the db object and leaves the collections and the uploads as they
\* were.
C14_ApiNeedsCredential ==
  [][~ res'.valid =>
       /\ res'.status \in {401, 302}
       /\ ret'.op = "none"
       /\ files' = files
       /\ uploads' = uploads]_vars

\* The file names in a document's images list.
ImageNames(doc) ==
  IF IsArr(Get(doc, "images"))
  THEN {Get(doc, "images")[2][i][2] : i \in DOMAIN Get(doc, "images")[2]}
  ELSE {}

C21_ImagesIsSequence ==
  \A entity \in Entities \ {"orders"} :
    \A i \in DOMAIN ReadData(entity) : IsArr(Get(ReadData(entity)[i], "images"))

\* The list-like fields of an entity's documents.
ListFields(entity) ==
  {"keywords"} \cup (IF entity \in Consumables THEN {"cupping_notes"} ELSE {})

\* out is the sequence the list-like input v is to be stored as: empty for
\* an absent or empty input, the input itself when it is a sequence, and for
\* a string its comma-separated segments, trimmed, none of them empty.
ListOf(v, out) ==
  /\ IsArr(out)
  /\ v \in {Undef, Str(<<>>)} => out = Arr(<<>>)
  /\ IsArr(v) => out = v
  /\ (IsStr(v) /\ v[2] # <<>>) =>
       /\ \A i \in DOMAIN out[2] :
            /\ IsStr(out[2][i]) /\ out[2][i][2] # <<>>
            /\ "," \notin Range(out[2][i][2])
            /\ Head(out[2][i][2]) # " " /\ out[2][i][2][Len(out[2][i][2])] # " "
       /\ Len(out[2]) <= 1 + Len(SelectSeq(v[2], LAMBDA c : c = ","))
  /\ v = Str(<<"a", ",", " ", "b", ",">>) => out = Arr(<<Str(<<"a">>), Str(<<"b">>)>>)
  /\ v = Str(<<"x", ",", "y">>) => out = Arr(<<Str(<<"x">>), Str(<<"y">>)>>)
  /\ v = Str(<<"q">>) => out = Arr(<<Str(<<"q">>)>>)

\* C22 as stated: after a create, and after an update that supplies the
\* field, keywords (and cupping_notes on beans, syrups, sauces) of the
\* document is the sequence of the input, for every entity.
C22_ListFieldsNormalized ==
  (ret.op \in {"create", "update"} /\ ret.kind = "doc")
    => \A f \in ListFields(ret.entity) :
         (ret.op = "create" \/ f \in DOMAIN ret.item)
           => ListOf(Get(ret.item, f), Get(ret.doc, f))

\* C22, for the entities that keep the field: the same, except that a
\* created orders document has no keywords, which create removes for orders.
C22_ListFieldsNormalizedWhereKept ==
  (ret.op \in {"create", "update"} /\ ret.kind = "doc")
    => \A f \in ListFields(ret.entity) :
         IF ret.op = "create" /\ ret.entity = "orders"
         THEN f \notin DOMAIN ret.doc
         ELSE (ret.op = "create" \/ f \in DOMAIN ret.item)
                => ListOf(Get(ret.item, f), Get(ret.doc, f))

\* C22 witness: a document was created from keywords "a, b," and is stored
\* with keywords ["a", "b"].
C22_Witness ==
  /\ CreatedDoc
  /\ Get(ret.item, "keywords") = Str(<<"a", ",", " ", "b", ",">>)
  /\ Get(ret.doc, "keywords") = Arr(<<Str(<<"a">>), Str(<<"b">>)>>)
  /\ ret.doc \in Range(ReadData(ret.entity))

\* a holds elements of b, in the order they have in b.
RECURSIVE InOrderOf(_, _)
InOrderOf(a, b) ==
  \/ a = <<>>
  \/ /\ b # <<>>
     /\ IF Head(a) = Head(b) THEN InOrderOf(Tail(a), Tail(b)) ELSE InOrderOf(a, Tail(b))

StoredAt(p) ==
  {i \in DOMAIN ReadData(reqs[p].entity) :
     ReadData(reqs[p].entity)[i] = JsonRoundTrip(reqs[p].doc)}

Finished(p) == reqs[p].pc = "done" /\ reqs[p].kind = "doc"

C24_BothCreatesPersist ==
  \A p \in Clients :
    Finished(p) =>
      /\ StoredAt(p) # {}
      /\ \A i \in DOMAIN reqs[p].before :
           reqs[p].before[i] \in Range(ReadData(reqs[p].entity))
      /\ \A q \in Clients \ {p} :
           Finished(q) /\ reqs[q].entity = reqs[p].entity =>
             /\ StoredAt(p) \cap StoredAt(q) = {}
             /\ Len(ReadData(reqs[p].entity)) = 2

\* Both requests awaited optimizeImages, ran interleaved (each had arrived
\* before the other's handler ran) and created a document in beans.
C24_Witness ==
  /\ \A p \in Clients :
       Finished(p) /\ reqs[p].entity = "beans" /\ reqs[p].origs # <<>>
         /\ reqs[p].before = <<>>
  /\ Len(ReadData("beans")) = 2

\* C25: an update that finds its document merges the normalized payload
\* into that one document: each of its fields that is no key of the
\* normalized payload keeps its value, and every other document of the
\* collection, a later one the identifier also names included, is the same
\* before and after.
C25_UpdateMergesOneDocument ==
  [][(ret'.op = "update" /\ ret'.kind = "doc") =>
       /\ FirstNamed(DataOf(files, ret'.entity), ret'.identifier) # 0
       /\ DOMAIN DataOf(files', ret'.entity) = DOMAIN DataOf(files, ret'.entity)
       /\ \A i \in DOMAIN DataOf(files, ret'.entity) :
            IF i = FirstNamed(DataOf(files, ret'.entity), ret'.identifier)
            THEN \A k \in DOMAIN DataOf(files, ret'.entity)[i]
                          \ DOMAIN Normalized(ret'.entity, ret'.item) :
                   Get(DataOf(files', ret'.entity)[i], k) = DataOf(files, ret'.entity)[i][k]
            ELSE DataOf(files', ret'.entity)[i] = DataOf(files, ret'.entity)[i]]_vars

\* An update was applied to the first of two documents its identifier
\* names, and a field outside the payload is still in the first.
C25_Witness ==
  /\ ret.op = "update" /\ ret.kind = "doc"
  /\ Len(ReadData(ret.entity)) = 2
  /\ Matches(ReadData(ret.entity)[2], ret.identifier)
  /\ ReadData(ret.entity)[2] # ReadData(ret.entity)[1]
  /\ FirstNamed(ReadData(ret.entity), ret.identifier) = 1
  /\ DOMAIN ReadData(ret.entity)[1] \ DOMAIN Normalized(ret.entity, ret.item) # {}

\* C26: an update of a blogs document whose payload has no content key
\* leaves the stored readTime as it was, and one whose payload has a content
\* key stores the readTime calculateReadTime gives for the new content.
C26_ReadTimeFollowsContent ==
  [][(ret'.op = "update" /\ ret'.entity = "blogs" /\ ret'.kind = "doc") =>
       Get(DataOf(files', "blogs")[FirstNamed(DataOf(files, "blogs"), ret'.identifier)],
           "readTime")
         = IF "content" \in DOMAIN ret'.item
           THEN CalculateReadTime(ret'.item["content"])
           ELSE Get(DataOf(files, "blogs")[FirstNamed(DataOf(files, "blogs"),
                                                      ret'.identifier)],
                    "readTime")]_vars

\* C27: a create, update or delete on one entity leaves the file of every
\* other entity as it was, so the documents of another collection stay
\* there and none is added to it.
C27_OtherEntitiesUntouched ==
  [][(ret'.op \in {"create", "update", "delete"}) =>
       \A e \in Entities \ {ret'.entity} : files'[e] = files[e]]_vars

\* A delete removed a document while the other collection holds a
\* document the same identifier names.
C27_Witness ==
  /\ ret.op = "delete" /\ ret.kind = "doc"
  /\ \E e \in Shelves \ {ret.entity} :
       \E i \in DOMAIN ReadData(e) : Matches(ReadData(e)[i], ret.identifier)

=============================================================================
